---- MODULE Spec2Model ----
(***************************************************************************)
(* Model of the buoy ingestion pipeline (buoy_to_influx_sqlite.py) and of  *)
(* the file lock of the exporters (export_24hr_timeseries.py,              *)
(* fetch_storm_surge.py).                                                  *)
(*                                                                         *)
(* Spec      one ingestion process at a time, run after run, which may be  *)
(*           killed at any step                                            *)
(* SpecLock  concurrently started exporter invocations sharing LOCKFILE    *)
(***************************************************************************)
EXTENDS Integers, Sequences, FiniteSets, TLC

VARIABLES
    xml_dir,        \* path -> document found by xml_dir.glob("*.xml")
    processed_file, \* ~/.cache/buoy_processed.txt: [exists, lines]
    store,          \* committed rows of buoy_observation, in rowid order
    pc,             \* position of the ingestion process
    processed,      \* in-memory set `processed` of the running process
    todo,           \* paths the for loop has not reached yet
    parsed,         \* result of parse_and_collect_fields for the current path
    txn,            \* open sqlite transaction: [open, rows]
    influx_online,  \* InfluxSink.online
    runs,           \* number of ingestion processes started so far
    event,          \* history: what the last step of the process did, on which path
    good_ledger,    \* history: lines written by the last completed ledger write
    ever_persisted, \* history: paths some completed ledger write has persisted
    now,            \* wall clock, seconds
    lockfile,       \* LOCKFILE: [exists, mtime]
    epc,            \* position of each exporter invocation
    esnap,          \* what each exporter invocation has computed to write
    tmp_file,       \* OUT_PATH + ".tmp": [exists, content]
    out_file,       \* OUT_PATH: [exists, content]
    fn_in,          \* argument of the function under study
    fn_out          \* its result, None before the call

ingest_vars == <<xml_dir, processed_file, store, pc, processed, todo, parsed, txn,
                 influx_online, runs, event, good_ledger, ever_persisted>>
export_vars == <<now, lockfile, epc, esnap, tmp_file, out_file>>
pure_vars == <<fn_in, fn_out>>
vars == <<ingest_vars, export_vars, pure_vars>>

----------------------------------------------------------------------------
\* Bounds of the model

NumPaths == 3          \* documents in the directory
MaxRuns == 3           \* ingestion processes started in one behaviour
NumProcs == 2          \* exporter invocations started in one behaviour
MaxTicks == 2          \* clock ticks in one behaviour

----------------------------------------------------------------------------
\* Python values

None == "<None>"
EmptyFields == [k \in {} |-> 0]

Range(s) == {s[i] : i \in DOMAIN s}

----------------------------------------------------------------------------
\* The directory: str(xml_path), in the order sorted(xml_dir.glob("*.xml"))

AllPaths == <<"/buoy/a.xml", "/buoy/b.xml", "/buoy/c.xml", "/buoy/d.xml">>

SortedPaths == SubSeq(AllPaths, 1, NumPaths)

Paths == Range(SortedPaths)

PathRank(p) == CHOOSE i \in DOMAIN AllPaths : AllPaths[i] = p

\* xml_path.name
PathName(p) ==
    CASE p = "/buoy/a.xml" -> "a.xml"
      [] p = "/buoy/b.xml" -> "b.xml"
      [] p = "/buoy/c.xml" -> "c.xml"
      [] p = "/buoy/d.xml" -> "d.xml"

\* sorted(S) for a set of paths
RECURSIVE sorted(_)
sorted(S) ==
    IF S = {} THEN <<>>
    ELSE LET m == CHOOSE x \in S : \A y \in S : PathRank(x) <= PathRank(y)
         IN <<m>> \o sorted(S \ {m})

----------------------------------------------------------------------------
\* Field mapping

EXPECTED_FIELDS ==
    {"wave_height_sig", "wave_height_peak", "wave_period_sig", "wave_period_avg",
     "wave_period_peak", "wave_direction_avg", "wave_direction_peak",
     "wind_speed", "wind_gust", "wind_direction", "air_temp", "sea_temp",
     "pressure"}

FIELD_MAP ==
    ("sig_wave_hgt_pst20mts" :> "wave_height_sig") @@
    ("avg_sig_wave_hgt_pst20mts" :> "wave_height_sig") @@
    ("sig_wave_hgt_pst35mts_10mts_ago" :> "wave_height_sig") @@
    ("pk_wave_hgt_pst20mts" :> "wave_height_peak") @@
    ("pk_wave_hgt_pst35mts_10mts_ago" :> "wave_height_peak") @@
    ("avg_wave_pd_pst20mts" :> "wave_period_avg") @@
    ("pk_wave_pd_pst20mts" :> "wave_period_peak") @@
    ("pk_wave_pd_pst35mts_10mts_ago" :> "wave_period_peak") @@
    ("avg_wave_dir_pst20mts" :> "wave_direction_avg") @@
    ("avg_pk_wave_dir_pst20mts" :> "wave_direction_peak") @@
    ("avg_wnd_spd_pst10mts" :> "wind_speed") @@
    ("avg_wnd_spd_pst10mts_1" :> "wind_speed") @@
    ("max_avg_wnd_spd_pst10mts" :> "wind_gust") @@
    ("max_avg_wnd_spd_pst10mts_1" :> "wind_gust") @@
    ("max_wnd_spd_pst10mts" :> "wind_gust") @@
    ("avg_wnd_dir_pst10mts" :> "wind_direction") @@
    ("avg_air_temp_pst10mts" :> "air_temp") @@
    ("avg_sea_sfc_temp_pst10mts" :> "sea_temp") @@
    ("avg_stn_pres_pst10mts" :> "pressure")

\* float(v): the literals of the documents below that float() accepts, with
\* their values; float() raises ValueError on every other text
FloatLiterals ==
    ("10" :> 10) @@ ("20" :> 20) @@ (" 30 " :> 30) @@ ("2" :> 2) @@ ("3" :> 3)

\* t_elem.text.replace("Z", "+00:00")
ReplaceZ(text) ==
    CASE text = "2024-01-01T01:00:00Z" -> "2024-01-01T01:00:00+00:00"
      [] text = "2024-01-01T02:00:00Z" -> "2024-01-01T02:00:00+00:00"
      [] OTHER -> text

\* int(datetime.fromisoformat(s).timestamp()) for the texts it accepts
IsoEpoch ==
    ("2024-01-01T01:00:00+00:00" :> 1704070800) @@
    ("2024-01-01T02:00:00+01:00" :> 1704070800) @@
    ("2024-01-01T02:00:00+00:00" :> 1704074400)

----------------------------------------------------------------------------
\* Documents

Elem(n, v) == [name |-> n, value |-> v]

Doc(wf, t, es) == [wellformed |-> wf, timePosition |-> t, elements |-> es]

\* not well-formed XML: ET.parse raises ParseError
DocBadXml == Doc(FALSE, None, <<>>)

\* no gml:timePosition element
DocNoTime ==
    Doc(TRUE, None, <<Elem("wmo_id_extnd", "4600146"),
                      Elem("avg_wnd_spd_pst10mts", "10")>>)

\* timePosition text that datetime.fromisoformat rejects
DocBadTime ==
    Doc(TRUE, "n/a", <<Elem("wmo_id_extnd", "4600146"),
                       Elem("avg_wnd_spd_pst10mts", "10")>>)

\* neither wmo_id_extnd nor wmo_synop_id with a value
DocNoStation ==
    Doc(TRUE, "2024-01-01T01:00:00Z",
        <<Elem("wmo_id_extnd", ""), Elem("avg_wnd_spd_pst10mts", "10")>>)

\* only unknown names and values float() rejects
DocNoMetrics ==
    Doc(TRUE, "2024-01-01T01:00:00Z",
        <<Elem("wmo_synop_id", "46146"), Elem("stn_nam", "Halibut Bank"),
          Elem("avg_wnd_spd_pst10mts", "MSNG"), Elem("avg_air_temp_pst10mts", None)>>)

\* station 4600146 at 01:00Z, wind speed 10
DocA1 ==
    Doc(TRUE, "2024-01-01T01:00:00Z",
        <<Elem("wmo_synop_id", "46146"), Elem("wmo_id_extnd", "4600146"),
          Elem("avg_wnd_spd_pst10mts", "10")>>)

\* the same station and instant (written with another offset), wind speed 20
DocA1b ==
    Doc(TRUE, "2024-01-01T02:00:00+01:00",
        <<Elem("wmo_id_extnd", "4600146"), Elem("avg_wnd_spd_pst10mts", "20"),
          Elem("avg_air_temp_pst10mts", "3")>>)

\* station 4600304 at 02:00Z: two raw names of one key, an unknown name
DocB2 ==
    Doc(TRUE, "2024-01-01T02:00:00Z",
        <<Elem("wmo_id_extnd", "4600304"), Elem("sig_wave_hgt_pst20mts", "2"),
          Elem("avg_sig_wave_hgt_pst20mts", "3"), Elem("stn_nam", "English Bay"),
          Elem("max_wnd_spd_pst10mts", " 30 ")>>)

Catalogue ==
    {DocBadXml, DocNoTime, DocBadTime, DocNoStation, DocNoMetrics,
     DocA1, DocA1b, DocB2}

----------------------------------------------------------------------------
\* parse_and_collect_fields

\* the two loop variables (buoy_id, synop_id) after the station loop
RECURSIVE StationLoop(_, _)
StationLoop(elems, synop_id) ==
    IF elems = <<>> THEN <<None, synop_id>>
    ELSE LET e == Head(elems) IN
         IF e.name = "wmo_id_extnd" /\ e.value # None /\ e.value # ""
         THEN <<e.value, synop_id>>
         ELSE IF e.name = "wmo_synop_id" /\ e.value # None /\ e.value # ""
         THEN StationLoop(Tail(elems), e.value)
         ELSE StationLoop(Tail(elems), synop_id)

\* buoy_id = buoy_id or synop_id
ResolveStation(elems) ==
    LET r == StationLoop(elems, None) IN IF r[1] # None THEN r[1] ELSE r[2]

\* variant: the first element of a canonical key is kept
\* (fields.setdefault(FIELD_MAP[n], float(v)))
RECURSIVE CollectFields_first(_, _)
CollectFields_first(elems, fields) ==
    IF elems = <<>> THEN fields
    ELSE LET e == Head(elems) IN
         CollectFields_first(Tail(elems),
            IF /\ e.name \in DOMAIN FIELD_MAP
               /\ e.value # None
               /\ e.value \in DOMAIN FloatLiterals
            THEN fields @@ (FIELD_MAP[e.name] :> FloatLiterals[e.value])
            ELSE fields)

\* the loop over the elements: fields[FIELD_MAP[n]] = float(v), a ValueError
\* of float() passed over
RECURSIVE CollectFields(_, _)
CollectFields(elems, fields) ==
    IF elems = <<>> THEN fields
    ELSE LET e == Head(elems) IN
         CollectFields(Tail(elems),
            IF /\ e.name \in DOMAIN FIELD_MAP
               /\ e.value # None
               /\ e.value \in DOMAIN FloatLiterals
            THEN (FIELD_MAP[e.name] :> FloatLiterals[e.value]) @@ fields
            ELSE fields)

\* variant: float(v) outside a try block, the ValueError of a recognized
\* element leaves the function
parse_and_collect_fields_strict(root) ==
    IF root.timePosition = None \/ root.timePosition = ""
    THEN [kind |-> "none"]
    ELSE IF ReplaceZ(root.timePosition) \notin DOMAIN IsoEpoch
    THEN [kind |-> "raise", exc |-> "ValueError"]
    ELSE LET buoy_id == ResolveStation(root.elements)
             fields == CollectFields(root.elements, EmptyFields)
         IN IF buoy_id = None THEN [kind |-> "none"]
            ELSE IF \E i \in DOMAIN root.elements :
                       /\ root.elements[i].name \in DOMAIN FIELD_MAP
                       /\ root.elements[i].value # None
                       /\ root.elements[i].value \notin DOMAIN FloatLiterals
            THEN [kind |-> "raise", exc |-> "ValueError"]
            ELSE IF DOMAIN fields = {} THEN [kind |-> "none"]
            ELSE [kind |-> "ok", buoy_id |-> buoy_id,
                  fields |-> ("observation_time" :>
                                  IsoEpoch[ReplaceZ(root.timePosition)]) @@ fields]

\* kind "none": returns None; kind "raise": an exception leaves the function
parse_and_collect_fields(root) ==
    IF root.timePosition = None \/ root.timePosition = ""
    THEN [kind |-> "none"]
    ELSE IF ReplaceZ(root.timePosition) \notin DOMAIN IsoEpoch
    THEN [kind |-> "raise", exc |-> "ValueError"]
    ELSE LET buoy_id == ResolveStation(root.elements)
             fields == CollectFields(root.elements, EmptyFields)
         IN IF buoy_id = None THEN [kind |-> "none"]
            ELSE IF DOMAIN fields = {} THEN [kind |-> "none"]
            ELSE [kind |-> "ok", buoy_id |-> buoy_id,
                  fields |-> ("observation_time" :>
                                  IsoEpoch[ReplaceZ(root.timePosition)]) @@ fields]

\* ET.parse followed by parse_and_collect_fields, as in the try block of main
ParseDocument(doc) ==
    IF ~doc.wellformed THEN [kind |-> "raise", exc |-> "ParseError"]
    ELSE parse_and_collect_fields(doc)

\* variant: a handler written `except ValueError`
except_ValueError(exc) == exc \in {"ValueError"}

\* except Exception: the classes the handler of main catches
except_Exception(exc) == exc \in {"ParseError", "ValueError", "IntegrityError"}

----------------------------------------------------------------------------
\* The observation store

\* variant: the table without its unique index
uniq_buoy_ts_absent(rows, buoy_id, ts_epoch) == {}

\* uniq_buoy_ts: the rows that conflict with a new (buoy_id, observation_time)
uniq_buoy_ts(rows, buoy_id, ts_epoch) ==
    {i \in DOMAIN rows :
        rows[i].buoy_id = buoy_id /\ rows[i].observation_time = ts_epoch}

\* variant: a plain INSERT into a table that accepts every row
insert_sqlite_plain(rows, buoy_id, ts_epoch, field_vals, source_file) ==
    LET field_cols == EXPECTED_FIELDS \cap DOMAIN field_vals
        row == [buoy_id |-> buoy_id, observation_time |-> ts_epoch,
                fields |-> [c \in field_cols |-> field_vals[c]],
                source_file |-> source_file]
    IN [raised |-> FALSE, rows |-> Append(rows, row)]

\* variant: INSERT OR REPLACE, the conflicting row is deleted and the new one
\* appended
insert_sqlite_replace(rows, buoy_id, ts_epoch, field_vals, source_file) ==
    LET field_cols == EXPECTED_FIELDS \cap DOMAIN field_vals
        row == [buoy_id |-> buoy_id, observation_time |-> ts_epoch,
                fields |-> [c \in field_cols |-> field_vals[c]],
                source_file |-> source_file]
        keep == SelectSeq(rows, LAMBDA r : ~(r.buoy_id = buoy_id
                                             /\ r.observation_time = ts_epoch))
    IN [raised |-> FALSE, rows |-> Append(keep, row)]

\* INSERT OR IGNORE of one row into the table. The table is the sequence of
\* its rows in rowid order; a row holds the columns the statement sets (the
\* columns it leaves out are NULL, `fields` has no entry for them); the rowid
\* value and recorded_at, which no code reads, are left out
insert_sqlite(rows, buoy_id, ts_epoch, field_vals, source_file) ==
    LET field_cols == EXPECTED_FIELDS \cap DOMAIN field_vals
        row == [buoy_id |-> buoy_id, observation_time |-> ts_epoch,
                fields |-> [c \in field_cols |-> field_vals[c]],
                source_file |-> source_file]
    IN IF uniq_buoy_ts(rows, buoy_id, ts_epoch) # {}
       THEN [raised |-> FALSE, rows |-> rows]
       ELSE [raised |-> FALSE, rows |-> Append(rows, row)]

----------------------------------------------------------------------------
\* The ledger file

\* set(processed_file.read_text().splitlines()) if processed_file.exists() else set()
ReadLedger(f) == IF f.exists THEN Range(f.lines) ELSE {}

\* processed: `fp in processed`
IsProcessed(fp, S) == fp \in S

NoTxn == [open |-> FALSE, rows |-> <<>>]

----------------------------------------------------------------------------
\* Exporter side, initial values (the exporter actions are further below)

\* datetime.now(timezone.utc) when the first exporter starts: 2024-01-02T01:30:00Z
StartTime == IsoEpoch["2024-01-01T01:00:00+00:00"] + 86400 + 1800

Procs == 1..NumProcs

\* no document: the snapshot of an invocation that has built none, the
\* content of a file that does not exist
NoDoc == [none |-> TRUE]

\* the content of a file that is open for writing and holds part of the text
Partial == [partial |-> TRUE]

NoFile == [exists |-> FALSE, content |-> NoDoc]

InitExportVars ==
    /\ now = StartTime
    /\ lockfile = [exists |-> FALSE, mtime |-> 0]
    /\ epc = [i \in Procs |-> "init"]
    /\ esnap = [i \in Procs |-> NoDoc]
    /\ tmp_file = NoFile
    /\ out_file = NoFile

\* the result of a call that has not been made
NotCalled == [called |-> FALSE]

\* the result of a call that has returned ret
Returned(ret) == [called |-> TRUE, ret |-> ret]

\* no function call is under study
InitPureVars ==
    /\ fn_in = None
    /\ fn_out = NotCalled

----------------------------------------------------------------------------
\* Ingestion: buoy_to_influx_sqlite.py main()

Running == {"loop", "influx", "insert", "commit", "flush"}

Stopped == {"idle", "done", "killed", "killed_in_flush", "aborted"}

NoEvent == [op |-> "none", path |-> None]

InitIngestVars ==
    /\ processed_file = [exists |-> FALSE, lines |-> <<>>]
    /\ store = <<>>
    /\ pc = "idle"
    /\ processed = {}
    /\ todo = <<>>
    /\ parsed = None
    /\ txn = NoTxn
    /\ influx_online = FALSE
    /\ runs = 0
    /\ event = NoEvent
    /\ good_ledger = <<>>
    /\ ever_persisted = {}

Init ==
    /\ xml_dir \in [Paths -> Catalogue]
    /\ InitIngestVars
    /\ InitExportVars
    /\ InitPureVars

\* a process starts: InfluxSink(), sqlite3.connect, ensure_schema, the ledger
\* is read, the directory is listed
StartRun ==
    /\ pc \in Stopped
    /\ runs < MaxRuns
    /\ runs' = runs + 1
    /\ influx_online' \in BOOLEAN
    /\ processed' = ReadLedger(processed_file)
    /\ todo' = SortedPaths
    /\ parsed' = None
    /\ txn' = NoTxn
    /\ pc' = "loop"
    /\ event' = [op |-> "start", path |-> None]
    /\ UNCHANGED <<xml_dir, processed_file, store, good_ledger, ever_persisted>>
    /\ UNCHANGED export_vars
    /\ UNCHANGED pure_vars

\* `if fp in processed: continue`
SkipProcessed ==
    /\ pc = "loop"
    /\ todo # <<>>
    /\ IsProcessed(Head(todo), processed)
    /\ todo' = Tail(todo)
    /\ event' = [op |-> "continue", path |-> Head(todo)]
    /\ UNCHANGED <<xml_dir, processed_file, store, pc, processed, parsed, txn,
                   influx_online, runs, good_ledger, ever_persisted>>
    /\ UNCHANGED export_vars
    /\ UNCHANGED pure_vars

\* ET.parse and parse_and_collect_fields of the next unprocessed path
ParseStep ==
    /\ pc = "loop"
    /\ todo # <<>>
    /\ ~IsProcessed(Head(todo), processed)
    /\ LET fp == Head(todo)
           r == ParseDocument(xml_dir[fp])
       IN /\ event' = [op |-> "parse", path |-> fp]
          /\ CASE r.kind = "raise" /\ except_Exception(r.exc) ->
                    \* except Exception: printed, the loop goes on
                    /\ todo' = Tail(todo)
                    /\ UNCHANGED <<processed, parsed, pc>>
               [] r.kind = "raise" /\ ~except_Exception(r.exc) ->
                    /\ pc' = "aborted"
                    /\ UNCHANGED <<processed, parsed, todo>>
               [] r.kind = "none" ->
                    /\ processed' = processed \cup {fp}
                    /\ todo' = Tail(todo)
                    /\ UNCHANGED <<parsed, pc>>
               [] r.kind = "ok" ->
                    /\ parsed' = r
                    /\ pc' = "influx"
                    /\ UNCHANGED <<processed, todo>>
    /\ UNCHANGED <<xml_dir, processed_file, store, txn, influx_online, runs,
                   good_ledger, ever_persisted>>
    /\ UNCHANGED export_vars
    /\ UNCHANGED pure_vars

\* variant: client.write_points outside a try block; its exception reaches
\* the handler of main, which goes on to the next path
InfluxWrite_unguarded ==
    /\ pc = "influx"
    /\ \/ /\ pc' = "insert"
          /\ event' = [op |-> "write_point", path |-> Head(todo)]
          /\ UNCHANGED <<todo, parsed>>
       \/ /\ influx_online
          /\ pc' = "loop"
          /\ todo' = Tail(todo)
          /\ parsed' = None
          /\ event' = [op |-> "write_point_failed", path |-> Head(todo)]
    /\ UNCHANGED <<xml_dir, processed_file, store, processed, txn, influx_online,
                   runs, good_ledger, ever_persisted>>
    /\ UNCHANGED export_vars
    /\ UNCHANGED pure_vars

\* InfluxSink.write_point: nothing when offline; client.write_points succeeds,
\* or raises and switches the sink off (the remote database is not modelled)
InfluxWrite ==
    /\ pc = "influx"
    /\ \/ /\ UNCHANGED influx_online
          /\ event' = [op |-> "write_point", path |-> Head(todo)]
       \/ /\ influx_online
          /\ influx_online' = FALSE
          /\ event' = [op |-> "write_point_failed", path |-> Head(todo)]
    /\ pc' = "insert"
    /\ UNCHANGED <<xml_dir, processed_file, store, processed, todo, parsed, txn,
                   runs, good_ledger, ever_persisted>>
    /\ UNCHANGED export_vars
    /\ UNCHANGED pure_vars

\* variant: the row is written by two statements, an INSERT of the key that
\* is committed at once and an UPDATE of the metrics committed later
InsertStep_two_statements ==
    /\ pc = "insert"
    /\ LET r == insert_sqlite(store, parsed.buoy_id,
                              parsed.fields["observation_time"], parsed.fields,
                              PathName(Head(todo)))
       IN /\ txn' = [open |-> TRUE, rows |-> r.rows]
          /\ store' = IF Len(r.rows) > Len(store)
                      THEN Append(store, [r.rows[Len(r.rows)] EXCEPT
                                             !.fields = EmptyFields])
                      ELSE store
          /\ pc' = "commit"
          /\ UNCHANGED <<todo, parsed>>
    /\ event' = [op |-> "insert", path |-> Head(todo)]
    /\ UNCHANGED <<xml_dir, processed_file, processed, influx_online, runs,
                   good_ledger, ever_persisted>>
    /\ UNCHANGED export_vars
    /\ UNCHANGED pure_vars

\* insert_sqlite(cur, ...): the statement runs inside a transaction that is
\* not committed yet
InsertStep ==
    /\ pc = "insert"
    /\ LET r == insert_sqlite(store, parsed.buoy_id,
                              parsed.fields["observation_time"], parsed.fields,
                              PathName(Head(todo)))
       IN IF r.raised
          THEN IF except_Exception("IntegrityError")
               THEN /\ pc' = "loop"
                    /\ todo' = Tail(todo)
                    /\ parsed' = None
                    /\ UNCHANGED txn
               ELSE /\ pc' = "aborted"
                    /\ UNCHANGED <<todo, parsed, txn>>
          ELSE /\ txn' = [open |-> TRUE, rows |-> r.rows]
               /\ pc' = "commit"
               /\ UNCHANGED <<todo, parsed>>
    /\ event' = [op |-> "insert", path |-> Head(todo)]
    /\ UNCHANGED <<xml_dir, processed_file, store, processed, influx_online, runs,
                   good_ledger, ever_persisted>>
    /\ UNCHANGED export_vars
    /\ UNCHANGED pure_vars

\* conn.commit(); processed.add(fp)
CommitStep ==
    /\ pc = "commit"
    /\ store' = txn.rows
    /\ txn' = NoTxn
    /\ processed' = processed \cup {Head(todo)}
    /\ todo' = Tail(todo)
    /\ parsed' = None
    /\ pc' = "loop"
    /\ event' = [op |-> "commit", path |-> Head(todo)]
    /\ UNCHANGED <<xml_dir, processed_file, influx_online, runs, good_ledger,
                   ever_persisted>>
    /\ UNCHANGED export_vars
    /\ UNCHANGED pure_vars

\* processed_file.write_text(...), first half: open(mode="w") truncates the file
FlushOpen ==
    /\ pc = "loop"
    /\ todo = <<>>
    /\ processed_file' = [exists |-> TRUE, lines |-> <<>>]
    /\ pc' = "flush"
    /\ event' = [op |-> "open", path |-> None]
    /\ UNCHANGED <<xml_dir, store, processed, todo, parsed, txn, influx_online,
                   runs, good_ledger, ever_persisted>>
    /\ UNCHANGED export_vars
    /\ UNCHANGED pure_vars

\* second half: "\n".join(sorted(processed)) is written and the file closed;
\* conn.close() and the summary follow
FlushWrite ==
    /\ pc = "flush"
    /\ processed_file' = [exists |-> TRUE, lines |-> sorted(processed)]
    /\ good_ledger' = sorted(processed)
    /\ ever_persisted' = ever_persisted \cup processed
    /\ pc' = "done"
    /\ event' = [op |-> "write", path |-> None]
    /\ UNCHANGED <<xml_dir, store, processed, todo, parsed, txn, influx_online,
                   runs>>
    /\ UNCHANGED export_vars
    /\ UNCHANGED pure_vars

\* the process is killed: memory is lost, the open transaction is rolled back
\* by sqlite; in the middle of write_text the file keeps what had reached it,
\* a proper prefix of the lines
Kill ==
    /\ pc \in Running
    /\ pc' = IF pc = "flush" THEN "killed_in_flush" ELSE "killed"
    /\ txn' = NoTxn
    /\ processed' = {}
    /\ todo' = <<>>
    /\ parsed' = None
    /\ event' = [op |-> "kill", path |-> None]
    /\ IF pc = "flush"
       THEN \E k \in 0..Len(sorted(processed)) :
               /\ k < Len(sorted(processed)) \/ k = 0
               /\ processed_file' = [exists |-> TRUE,
                                     lines |-> SubSeq(sorted(processed), 1, k)]
       ELSE UNCHANGED processed_file
    /\ UNCHANGED <<xml_dir, store, influx_online, runs, good_ledger, ever_persisted>>
    /\ UNCHANGED export_vars
    /\ UNCHANGED pure_vars

Next ==
    \/ StartRun
    \/ SkipProcessed
    \/ ParseStep
    \/ InfluxWrite
    \/ InsertStep
    \/ CommitStep
    \/ FlushOpen
    \/ FlushWrite
    \/ Kill

Spec == Init /\ [][Next]_vars

----------------------------------------------------------------------------
\* Properties of the ingestion

Kind(p) == ParseDocument(xml_dir[p]).kind

Valid == {p \in Paths : Kind(p) = "ok"}

\* (station_id, observed_at) of a valid document
KeyOf(p) ==
    LET r == ParseDocument(xml_dir[p])
    IN <<r.buoy_id, r.fields["observation_time"]>>

KeyOfRow(r) == <<r.buoy_id, r.observation_time>>

RowsOfKey(rows, key) == {i \in DOMAIN rows : KeyOfRow(rows[i]) = key}

LinesOf(p) == {i \in DOMAIN processed_file.lines : processed_file.lines[i] = p}

Ledger == Range(processed_file.lines)

\* the row insert_sqlite writes for a valid document
RowOf(p) ==
    LET r == ParseDocument(xml_dir[p])
    IN [buoy_id |-> r.buoy_id, observation_time |-> r.fields["observation_time"],
        fields |-> [c \in EXPECTED_FIELDS \cap DOMAIN r.fields |-> r.fields[c]],
        source_file |-> PathName(p)]

\* the first path, in processing order, among the valid documents of a key
FirstOfKey(key) ==
    CHOOSE p \in Valid :
        /\ KeyOf(p) = key
        /\ \A q \in Valid : KeyOf(q) = key => PathRank(p) <= PathRank(q)

\* C1: in every reachable state of the store, committed or inside the open
\* transaction, no two rows share (station_id, observed_at)
C1_UniqueKey ==
    /\ \A i, j \in DOMAIN store :
          KeyOfRow(store[i]) = KeyOfRow(store[j]) => i = j
    /\ \A i, j \in DOMAIN txn.rows :
          KeyOfRow(txn.rows[i]) = KeyOfRow(txn.rows[j]) => i = j

\* a second document of a stored key has just been committed
C1_Witness ==
    /\ event.op = "commit"
    /\ \E i \in DOMAIN store :
          /\ KeyOfRow(store[i]) = KeyOf(event.path)
          /\ store[i].source_file # PathName(event.path)

\* C2: however often a document is ingested, the store never holds more than
\* one row of its observation and the ledger file never holds its reference
\* more than once; when a second or later run has completed, every valid
\* document has exactly one row and exactly one ledger line
C2_Idempotent ==
    /\ \A p \in Valid : Cardinality(RowsOfKey(store, KeyOf(p))) <= 1
    /\ \A p \in Paths : Cardinality(LinesOf(p)) <= 1
    /\ (pc = "done" /\ runs >= 2) =>
          \A p \in Valid : /\ Cardinality(RowsOfKey(store, KeyOf(p))) = 1
                           /\ Cardinality(LinesOf(p)) = 1

\* a later run has met, and passed over, a valid document that is stored and
\* in the ledger
C2_Witness ==
    /\ runs >= 2
    /\ event.op = "continue"
    /\ event.path \in Valid
    /\ Cardinality(RowsOfKey(store, KeyOf(event.path))) = 1
    /\ Cardinality(LinesOf(event.path)) = 1

\* C3: of the documents of one (station_id, observed_at) only the one
\* processed first, the first in path order, is stored; the insert of a later
\* one raises nothing and changes no row, no stored row ever changes, and the
\* later document is marked processed
C3_FirstWins ==
    /\ [](\A i \in DOMAIN store :
             store[i] = RowOf(FirstOfKey(KeyOfRow(store[i]))))
    /\ [][/\ \A i \in DOMAIN store : i \in DOMAIN store' /\ store'[i] = store[i]
          /\ (pc = "insert" /\ pc' \notin {"insert", "killed"}
                /\ RowsOfKey(store, KeyOf(Head(todo))) # {})
               => (pc' = "commit" /\ txn'.rows = store)
          /\ (pc = "commit" /\ pc' = "loop")
               => Head(todo) \in processed']_vars

\* a document whose key was taken by an earlier document with other metric
\* values has been committed and marked processed
C3_Witness ==
    /\ event.op = "commit"
    /\ event.path \in processed
    /\ \E i \in DOMAIN store :
          /\ KeyOfRow(store[i]) = KeyOf(event.path)
          /\ store[i].fields # RowOf(event.path).fields

\* C4: once a source reference is in the ledger, in the memory of the running
\* process or persisted by a completed write, no later step parses its document
C4_NeverReextracted ==
    [][event'.op = "parse" => event'.path \notin (processed \cup ever_persisted)]_vars

\* the four kinds of malformed document
Malformed(doc) ==
    /\ doc.wellformed
    /\ \/ doc.timePosition = None
       \/ ReplaceZ(doc.timePosition) \notin DOMAIN IsoEpoch
       \/ ResolveStation(doc.elements) = None
       \/ DOMAIN CollectFields(doc.elements, EmptyFields) = {}

\* C5: when a run has completed, every malformed document is in the ledger
\* file and has no row
C5_MalformedMarked ==
    pc = "done" =>
        \A p \in Paths : Malformed(xml_dir[p]) =>
            /\ p \in Ledger
            /\ \A i \in DOMAIN store : store[i].source_file # PathName(p)

\* C6: no document makes the run stop early, and when a run has completed every
\* valid document is in the ledger file and its observation is in the store
C6_Isolation ==
    /\ pc # "aborted"
    /\ pc = "done" =>
          \A p \in Valid : /\ p \in Ledger
                           /\ RowsOfKey(store, KeyOf(p)) # {}

\* the first run has completed on a directory with exactly one document that
\* is not valid, and it is an unparsable one or one that fails extraction
C6_Witness ==
    /\ pc = "done"
    /\ runs = 1
    /\ Cardinality(Valid) = NumPaths - 1
    /\ \A p \in Valid : p \in Ledger /\ RowsOfKey(store, KeyOf(p)) # {}
    /\ \E p \in Paths \ Valid : ~xml_dir[p].wellformed \/ Kind(p) = "raise"

\* C7: after a kill during the ledger write the ledger file holds the lines
\* of the last completed write
C7_LedgerIntact ==
    pc = "killed_in_flush" =>
        /\ processed_file.exists
        /\ processed_file.lines = good_ledger

\* the store an uninterrupted run over the directory produces
RECURSIVE UninterruptedRun(_, _)
UninterruptedRun(paths, rows) ==
    IF paths = <<>> THEN rows
    ELSE LET r == ParseDocument(xml_dir[Head(paths)])
         IN UninterruptedRun(Tail(paths),
               IF r.kind = "ok"
               THEN insert_sqlite(rows, r.buoy_id, r.fields["observation_time"],
                                  r.fields, PathName(Head(paths))).rows
               ELSE rows)

\* C8 (a): every reference in the ledger file is of a document that was
\* skipped or whose row is committed
C8a_LedgerCommitted ==
    \A p \in Ledger :
        \/ Kind(p) = "none"
        \/ Kind(p) = "ok" /\ RowsOfKey(store, KeyOf(p)) # {}

\* C8 (b): a completed run leaves the rows of an uninterrupted run
C8b_SameStore ==
    pc = "done" => store = UninterruptedRun(SortedPaths, <<>>)

\* C8 (c): a run parses only documents whose reference no ledger write has
\* persisted
C8c_OnlyUnpersisted ==
    [][event'.op = "parse" => event'.path \notin ever_persisted]_vars

\* C8: a run killed at any step and restarted to completion: (a), (b) and (c)
C8_KillRestart ==
    /\ []C8a_LedgerCommitted
    /\ []C8b_SameStore
    /\ C8c_OnlyUnpersisted

----------------------------------------------------------------------------
\* Timeseries export: export_24hr_timeseries.py

LOCK_TIMEOUT == 300

\* the clock advances in steps of the timeout: a lock is met at the ages 0,
\* 300 (the last age that is not stale), 600, ...
TickStep == LOCK_TIMEOUT

BUOYS == {"4600146", "4600303", "4600304", "4600131"}

\* the buoys restricted to samples on the hour
HourlyBuoys == {"4600304", "4600303"}

ALL_METRICS ==
    {"wave_height_sig", "wave_height_peak", "wave_period_avg", "wave_period_peak",
     "wave_direction_peak", "wind_speed", "wind_gust", "wind_direction",
     "air_temp", "sea_temp", "pressure"}

\* kmh_to_knots for a whole number of km/h, in tenths of a knot:
\* round(kmh * 0.539957, 1)
kmh_to_knots(kmh) == (kmh * 539957 + 50000) \div 100000

\* datetime.fromtimestamp(t, tz=timezone.utc).isoformat()
isoformat(t) ==
    CASE t = 1704070740 -> "2024-01-01T00:59:00+00:00"
      [] t = 1704070800 -> "2024-01-01T01:00:00+00:00"
      [] t = 1704070860 -> "2024-01-01T01:01:00+00:00"
      [] t = 1704072600 -> "2024-01-01T01:30:00+00:00"
      [] t = 1704074400 -> "2024-01-01T02:00:00+00:00"
      [] t = 1704075000 -> "2024-01-01T02:10:00+00:00"
      [] t = 1704160800 -> "2024-01-02T02:00:00+00:00"
      [] OTHER -> <<"iso", t>>

\* variant: the query of the standard buoys used for every buoy
SelectRows_nofilter(rows, buoy_id, cutoff_timestamp, metric_key) ==
    {i \in DOMAIN rows :
        /\ rows[i].buoy_id = buoy_id
        /\ rows[i].observation_time >= cutoff_timestamp
        /\ metric_key \in DOMAIN rows[i].fields}

\* the rows of one SELECT, as the set of their positions in the table
SelectRows(rows, buoy_id, cutoff_timestamp, metric_key) ==
    {i \in DOMAIN rows :
        /\ rows[i].buoy_id = buoy_id
        /\ rows[i].observation_time >= cutoff_timestamp
        /\ metric_key \in DOMAIN rows[i].fields
        /\ buoy_id \in HourlyBuoys => rows[i].observation_time % 3600 = 0}

\* ORDER BY observation_time ASC, each row turned into {time, value}
RECURSIVE SeriesOf(_, _, _)
SeriesOf(rows, sel, metric_key) ==
    IF sel = {} THEN <<>>
    ELSE LET i == CHOOSE x \in sel :
                    \A y \in sel : rows[x].observation_time <= rows[y].observation_time
             v == rows[i].fields[metric_key]
         IN <<[time |-> isoformat(rows[i].observation_time),
               epoch |-> rows[i].observation_time,
               value |-> IF metric_key \in {"wind_speed", "wind_gust"}
                         THEN [tenths |-> kmh_to_knots(v)]
                         ELSE [units |-> v]]>>
            \o SeriesOf(rows, sel \ {i}, metric_key)

\* variant: every buoy of BUOYS is added, with or without a series
TimeseriesJson_every_buoy(rows, t) ==
    LET cutoff == t - 86400
        available == ALL_METRICS \cap EXPECTED_FIELDS
        series(b) == [m \in {k \in available : SelectRows(rows, b, cutoff, k) # {}}
                        |-> SeriesOf(rows, SelectRows(rows, b, cutoff, m), m)]
        exported == BUOYS
        times == UNION {UNION {{series(b)[m][j].epoch : j \in DOMAIN series(b)[m]}
                                  : m \in DOMAIN series(b)} : b \in exported}
    IN [buoys |-> [b \in exported |-> series(b)],
        meta |-> [generated_utc |-> t,
                  query_start |-> cutoff,
                  query_end |-> t,
                  data_start |-> IF times = {} THEN None
                                 ELSE isoformat(CHOOSE x \in times :
                                                   \A y \in times : x <= y),
                  data_end |-> IF times = {} THEN None
                               ELSE isoformat(CHOOSE x \in times :
                                                 \A y \in times : x >= y),
                  hours_covered |-> 24,
                  available_metrics |-> available,
                  buoy_count |-> Cardinality(exported)]]

\* the document query_and_export_timeseries builds from the table at time t
\* (names, locations and units, which are constants, are left out)
TimeseriesJson(rows, t) ==
    LET cutoff == t - 86400
        available == ALL_METRICS \cap EXPECTED_FIELDS
        series(b) == [m \in {k \in available : SelectRows(rows, b, cutoff, k) # {}}
                        |-> SeriesOf(rows, SelectRows(rows, b, cutoff, m), m)]
        exported == {b \in BUOYS : DOMAIN series(b) # {}}
        times == UNION {UNION {{series(b)[m][j].epoch : j \in DOMAIN series(b)[m]}
                                  : m \in DOMAIN series(b)} : b \in exported}
    IN [buoys |-> [b \in exported |-> series(b)],
        meta |-> [generated_utc |-> t,
                  query_start |-> cutoff,
                  query_end |-> t,
                  data_start |-> IF times = {} THEN None
                                 ELSE isoformat(CHOOSE x \in times :
                                                   \A y \in times : x <= y),
                  data_end |-> IF times = {} THEN None
                               ELSE isoformat(CHOOSE x \in times :
                                                 \A y \in times : x >= y),
                  hours_covered |-> 24,
                  available_metrics |-> available,
                  buoy_count |-> Cardinality(exported)]]

\* variant: a lock counted as stale from 300 seconds on
IsStale_from300(age) == age >= LOCK_TIMEOUT

\* `time.time() - LOCKFILE.stat().st_mtime > 300`, as a test of the age
IsStale(age) == age > LOCK_TIMEOUT

\* an invocation between the return of acquire_lock and the end of release_lock
Holding(i) ==
    epc[i] \in {"export", "write_open", "write_tmp", "replace", "release",
                "rel_unlink", "release_x", "rel_unlink_x"}

Active(i) == epc[i] \in {"init", "stat", "unlink", "touch"} \/ Holding(i)

\* the directories the exporters are run on
LockDirs ==
    {[p \in Paths |-> DocA1],
     [p \in Paths |-> IF p = Head(SortedPaths) THEN DocA1b ELSE DocB2]}

\* a completed ingestion run over a directory of valid documents
InitIngested ==
    /\ xml_dir \in LockDirs
    /\ processed_file = [exists |-> TRUE, lines |-> SortedPaths]
    /\ store = UninterruptedRun(SortedPaths, <<>>)
    /\ pc = "done"
    /\ processed = Paths
    /\ todo = <<>>
    /\ parsed = None
    /\ txn = NoTxn
    /\ influx_online = FALSE
    /\ runs = 1
    /\ event = [op |-> "write", path |-> None]
    /\ good_ledger = SortedPaths
    /\ ever_persisted = Paths

\* no exporter has run since
InitLock ==
    /\ InitIngested
    /\ InitExportVars
    /\ InitPureVars

\* acquire_lock: `if LOCKFILE.exists():`
AcquireExists(i) ==
    /\ epc[i] = "init"
    /\ epc' = [epc EXCEPT ![i] = IF lockfile.exists THEN "stat" ELSE "touch"]
    /\ UNCHANGED <<now, lockfile, esnap, tmp_file, out_file>>
    /\ UNCHANGED ingest_vars
    /\ UNCHANGED pure_vars

\* acquire_lock: LOCKFILE.stat() and the test of the age; on a fresh lock
\* acquire_lock returns False and the script calls exit(1); stat() of a file
\* that is gone raises FileNotFoundError, which nothing catches
AcquireStat(i) ==
    /\ epc[i] = "stat"
    /\ epc' = [epc EXCEPT ![i] =
                  IF ~lockfile.exists THEN "crashed"
                  ELSE IF IsStale(now - lockfile.mtime) THEN "unlink"
                  ELSE "exit1"]
    /\ UNCHANGED <<now, lockfile, esnap, tmp_file, out_file>>
    /\ UNCHANGED ingest_vars
    /\ UNCHANGED pure_vars

\* acquire_lock: LOCKFILE.unlink() of the stale lock
AcquireUnlink(i) ==
    /\ epc[i] = "unlink"
    /\ IF lockfile.exists
       THEN /\ lockfile' = [exists |-> FALSE, mtime |-> 0]
            /\ epc' = [epc EXCEPT ![i] = "touch"]
       ELSE /\ epc' = [epc EXCEPT ![i] = "crashed"]
            /\ UNCHANGED lockfile
    /\ UNCHANGED <<now, esnap, tmp_file, out_file>>
    /\ UNCHANGED ingest_vars
    /\ UNCHANGED pure_vars

\* acquire_lock: LOCKFILE.touch(); return True
AcquireTouch(i) ==
    /\ epc[i] = "touch"
    /\ lockfile' = [exists |-> TRUE, mtime |-> now]
    /\ epc' = [epc EXCEPT ![i] = "export"]
    /\ UNCHANGED <<now, esnap, tmp_file, out_file>>
    /\ UNCHANGED ingest_vars
    /\ UNCHANGED pure_vars

\* query_and_export_timeseries up to the write: the table is read and the
\* document built, or the function returns early (database missing, no
\* metric column, sqlite3.OperationalError)
ExportQuery(i) ==
    /\ epc[i] = "export"
    /\ \/ /\ esnap' = [esnap EXCEPT ![i] = TimeseriesJson(store, now)]
          /\ epc' = [epc EXCEPT ![i] = "write_open"]
       \/ /\ epc' = [epc EXCEPT ![i] = "release"]
          /\ UNCHANGED esnap
    /\ UNCHANGED <<now, lockfile, tmp_file, out_file>>
    /\ UNCHANGED ingest_vars
    /\ UNCHANGED pure_vars

\* variant: path.write_text(...) on the public path itself
WriteOpen_direct(i) ==
    /\ epc[i] = "write_open"
    /\ out_file' = [exists |-> TRUE, content |-> Partial]
    /\ epc' = [epc EXCEPT ![i] = "write_tmp"]
    /\ UNCHANGED <<now, lockfile, esnap, tmp_file>>
    /\ UNCHANGED ingest_vars
    /\ UNCHANGED pure_vars

\* safe_json_write: tmp.write_text, first half: the file is opened and truncated
WriteOpen(i) ==
    /\ epc[i] = "write_open"
    /\ tmp_file' = [exists |-> TRUE, content |-> Partial]
    /\ epc' = [epc EXCEPT ![i] = "write_tmp"]
    /\ UNCHANGED <<now, lockfile, esnap, out_file>>
    /\ UNCHANGED ingest_vars
    /\ UNCHANGED pure_vars

\* safe_json_write: tmp.write_text, second half: the text is written
WriteTmp(i) ==
    /\ epc[i] = "write_tmp"
    /\ tmp_file' = [exists |-> TRUE, content |-> esnap[i]]
    /\ epc' = [epc EXCEPT ![i] = "replace"]
    /\ UNCHANGED <<now, lockfile, esnap, out_file>>
    /\ UNCHANGED ingest_vars
    /\ UNCHANGED pure_vars

\* safe_json_write: tmp.replace(path); FileNotFoundError when the temporary
\* file is gone, which leaves through the finally clause
Replace(i) ==
    /\ epc[i] = "replace"
    /\ IF tmp_file.exists
       THEN /\ out_file' = tmp_file
            /\ tmp_file' = NoFile
            /\ epc' = [epc EXCEPT ![i] = "release"]
       ELSE /\ epc' = [epc EXCEPT ![i] = "release_x"]
            /\ UNCHANGED <<tmp_file, out_file>>
    /\ UNCHANGED <<now, lockfile, esnap>>
    /\ UNCHANGED ingest_vars
    /\ UNCHANGED pure_vars

\* release_lock: `if LOCKFILE.exists():`
ReleaseExists(i) ==
    /\ epc[i] \in {"release", "release_x"}
    /\ epc' = [epc EXCEPT ![i] =
                  IF lockfile.exists
                  THEN (IF epc[i] = "release" THEN "rel_unlink" ELSE "rel_unlink_x")
                  ELSE (IF epc[i] = "release" THEN "done" ELSE "crashed")]
    /\ UNCHANGED <<now, lockfile, esnap, tmp_file, out_file>>
    /\ UNCHANGED ingest_vars
    /\ UNCHANGED pure_vars

\* release_lock: LOCKFILE.unlink()
ReleaseUnlink(i) ==
    /\ epc[i] \in {"rel_unlink", "rel_unlink_x"}
    /\ IF lockfile.exists
       THEN /\ lockfile' = [exists |-> FALSE, mtime |-> 0]
            /\ epc' = [epc EXCEPT ![i] =
                          IF epc[i] = "rel_unlink" THEN "done" ELSE "crashed"]
       ELSE /\ epc' = [epc EXCEPT ![i] = "crashed"]
            /\ UNCHANGED lockfile
    /\ UNCHANGED <<now, esnap, tmp_file, out_file>>
    /\ UNCHANGED ingest_vars
    /\ UNCHANGED pure_vars

\* the invocation is killed: the finally clause does not run
KillExporter(i) ==
    /\ Active(i)
    /\ epc[i] # "init"
    /\ epc' = [epc EXCEPT ![i] = "killed"]
    /\ UNCHANGED <<now, lockfile, esnap, tmp_file, out_file>>
    /\ UNCHANGED ingest_vars
    /\ UNCHANGED pure_vars

\* time passes
Tick ==
    /\ now < StartTime + MaxTicks * TickStep
    /\ now' = now + TickStep
    /\ UNCHANGED <<lockfile, epc, esnap, tmp_file, out_file>>
    /\ UNCHANGED ingest_vars
    /\ UNCHANGED pure_vars

NextLock ==
    \/ \E i \in Procs : AcquireExists(i)
    \/ \E i \in Procs : AcquireStat(i)
    \/ \E i \in Procs : AcquireUnlink(i)
    \/ \E i \in Procs : AcquireTouch(i)
    \/ \E i \in Procs : ExportQuery(i)
    \/ \E i \in Procs : WriteOpen(i)
    \/ \E i \in Procs : WriteTmp(i)
    \/ \E i \in Procs : Replace(i)
    \/ \E i \in Procs : ReleaseExists(i)
    \/ \E i \in Procs : ReleaseUnlink(i)
    \/ \E i \in Procs : KillExporter(i)
    \/ Tick

SpecLock == InitLock /\ [][NextLock]_vars

----------------------------------------------------------------------------
\* Properties of the lock

\* C9: at any time at most one invocation holds the lock
C9_MutualExclusion == Cardinality({i \in Procs : Holding(i)}) <= 1

\* C10: an invocation whose stat() finds the lock file with an age of at most
\* 300 seconds exits with status 1 in that step, which changes neither the lock
\* file nor the artifact, its temporary file or the store; after exit it takes
\* no step
C10_FreshLockAborts ==
    [][\A i \in Procs :
          /\ (/\ epc[i] = "stat"
              /\ epc'[i] \notin {"stat", "killed"}
              /\ lockfile.exists
              /\ now - lockfile.mtime <= 300)
             => /\ epc'[i] = "exit1"
                /\ UNCHANGED <<lockfile, tmp_file, out_file, store, esnap>>
          /\ epc[i] = "exit1" => epc'[i] = "exit1"]_vars

\* an invocation has exited on a lock exactly 300 seconds old that another
\* invocation holds
C10_Witness ==
    \E i, j \in Procs :
        /\ epc[i] = "exit1"
        /\ Holding(j)
        /\ lockfile.exists
        /\ now - lockfile.mtime = 300

----------------------------------------------------------------------------
\* A lock left behind by a killed invocation

\* an earlier invocation, which is not one of Procs, touched the lock file
\* two timeouts before the clock starts and was killed before release_lock
InitReclaim ==
    /\ InitIngested
    /\ xml_dir = [p \in Paths |-> DocA1]
    /\ now = StartTime
    /\ lockfile = [exists |-> TRUE, mtime |-> StartTime - 2 * LOCK_TIMEOUT]
    /\ epc = [i \in Procs |-> "init"]
    /\ esnap = [i \in Procs |-> NoDoc]
    /\ tmp_file = NoFile
    /\ out_file = NoFile
    /\ InitPureVars

\* the steps of invocation i, from the call of acquire_lock to the end of
\* release_lock
Invocation(i) ==
    \/ AcquireExists(i)
    \/ AcquireStat(i)
    \/ AcquireUnlink(i)
    \/ AcquireTouch(i)
    \/ ExportQuery(i)
    \/ WriteOpen(i)
    \/ WriteTmp(i)
    \/ Replace(i)
    \/ ReleaseExists(i)
    \/ ReleaseUnlink(i)

\* an invocation that is started runs on until it ends or is killed
SpecReclaim ==
    /\ InitReclaim
    /\ [][NextLock]_vars
    /\ \A i \in Procs : WF_vars(Invocation(i))

\* what holds of an abandoned lock: unless an invocation of the run is
\* killed, some invocation gets to hold the lock
SomeInvocationHolds ==
    <>(\E i \in Procs : Holding(i) \/ epc[i] = "killed")

\* C11: an invocation that has found the lock file present leaves
\* acquire_lock in one of two ways only: it removes the lock, touches a new
\* one and holds it, or it exits with status 1 on a lock that is at most 300
\* seconds old; a lock older than that never turns it away and no step of
\* acquire_lock fails
C11_AbandonedLockReclaimed ==
    [][\A i \in Procs :
          /\ (epc[i] = "stat" /\ epc'[i] \notin {"stat", "killed"})
             => \/ epc'[i] = "unlink"
                \/ /\ epc'[i] = "exit1"
                   /\ lockfile.exists
                   /\ now - lockfile.mtime <= 300
          /\ (epc[i] = "unlink" /\ epc'[i] \notin {"unlink", "killed"})
             => epc'[i] = "touch" /\ ~lockfile'.exists
          /\ (epc[i] = "touch" /\ epc'[i] \notin {"touch", "killed"})
             => /\ epc'[i] = "export"
                /\ lockfile' = [exists |-> TRUE, mtime |-> now]]_vars

----------------------------------------------------------------------------
\* One exporter invocation at a time

\* every other invocation has not started or has ended
OthersIdle(i) == \A j \in Procs \ {i} : epc[j] = "init" \/ ~Active(j)

\* the invocations are started one after the other, each after the one
\* before has ended or was killed
NextSerial ==
    \/ \E i \in Procs : OthersIdle(i) /\ Invocation(i)
    \/ \E i \in Procs : OthersIdle(i) /\ KillExporter(i)
    \/ Tick

SpecSerial == InitLock /\ [][NextSerial]_vars

\* the times an invocation can read from the clock
ClockTimes == {StartTime + k * TickStep : k \in 0..MaxTicks}

\* the text of a whole document built from the table
CompleteArtifact(content) ==
    \E t \in ClockTimes : content = TimeseriesJson(store, t)

\* C12: with one invocation at a time, the file at the public path, once it
\* exists, always holds a whole document; it changes only in the replace
\* step, to the document the invocation built; a step in which an invocation
\* is killed or fails leaves it as it was
C12_AtomicPublish ==
    /\ [](out_file.exists => CompleteArtifact(out_file.content))
    /\ [][/\ out_file' # out_file
             => \E i \in Procs :
                   /\ epc[i] = "replace"
                   /\ epc'[i] = "release"
                   /\ out_file' = [exists |-> TRUE, content |-> esnap[i]]
          /\ \A i \in Procs :
                (epc'[i] \in {"killed", "crashed"} /\ epc'[i] # epc[i])
                   => out_file' = out_file]_vars

\* an invocation was killed with its temporary file half written while the
\* public path holds the document of an earlier invocation
C12_Witness ==
    \E i \in Procs :
        /\ epc[i] = "killed"
        /\ tmp_file = [exists |-> TRUE, content |-> Partial]
        /\ out_file.exists
        /\ esnap[i] # out_file.content

----------------------------------------------------------------------------
\* Degrees to cardinal: sqlite_to_json.py, influx_to_mqtt.py

\* the largest number of whole turns a degree value is away from 0..359
MaxTurns == 1

\* variant: two neighbouring labels of the list exchanged
DIRS_16_transposed ==
    <<"N", "NNE", "NE", "ENE", "E", "ESE", "SSE", "SE",
      "S", "SSW", "SW", "WSW", "W", "WNW", "NW", "NNW">>

DIRS_16 ==
    <<"N", "NNE", "NE", "ENE", "E", "ESE", "SE", "SSE",
      "S", "SSW", "SW", "WSW", "W", "WNW", "NW", "NNW">>

\* a degree value, in hundredths of a degree
Deg(d) == [kind |-> "num", c |-> d * 100]

\* the arguments: whole degrees, the bucket limits and centres with their
\* neighbours one hundredth away, a negative value so small that the float
\* remainder rounds to 360.0, None, NaN and a text float() rejects
CardinalInputs ==
    {Deg(d) : d \in (0 - 360 * MaxTurns)..(360 * MaxTurns + 359)}
    \cup {[kind |-> "num", c |-> k * 1125 + e] :
             k \in (0 - 32 * MaxTurns)..(32 * MaxTurns + 32), e \in {0 - 1, 0, 1}}
    \cup {[kind |-> "tiny_negative"], [kind |-> "none"], [kind |-> "nan"],
          [kind |-> "text"]}

\* `d % 360.0`, in hundredths of a degree
fmod360(deg) == IF deg.kind = "tiny_negative" THEN 36000 ELSE deg.c % 36000

\* variant: no half-bucket offset before the floor division
CardinalIndex_nooffset(d) == d \div 2250

\* `int((d + 11.25) // 22.5)`
CardinalIndex(d) == (d + 1125) \div 2250

degrees_to_cardinal(deg) ==
    IF deg.kind \in {"none", "text", "nan"} THEN None
    ELSE DIRS_16[(CardinalIndex(fmod360(deg)) % 16) + 1]

InitCardinal ==
    /\ InitIngested
    /\ xml_dir = [p \in Paths |-> DocA1]
    /\ InitExportVars
    /\ fn_in \in CardinalInputs
    /\ fn_out = NotCalled

CallCardinal ==
    /\ ~fn_out.called
    /\ fn_out' = Returned(degrees_to_cardinal(fn_in))
    /\ UNCHANGED fn_in
    /\ UNCHANGED ingest_vars
    /\ UNCHANGED export_vars

SpecCardinal == InitCardinal /\ [][CallCardinal]_vars

\* C13 as stated: 0 gives N, 90 gives E, 359 gives N and 100 gives ESE
C13_CardinalExamples ==
    fn_out.called =>
        /\ fn_in = Deg(0) => fn_out.ret = "N"
        /\ fn_in = Deg(90) => fn_out.ret = "E"
        /\ fn_in = Deg(359) => fn_out.ret = "N"
        /\ fn_in = Deg(100) => fn_out.ret = "ESE"

\* C13: 0 gives N, 90 gives E, 359 gives N and 100 gives E; ESE begins at
\* 101.25 and 112 gives ESE
C13_CardinalExamplesE ==
    fn_out.called =>
        /\ fn_in = Deg(0) => fn_out.ret = "N"
        /\ fn_in = Deg(90) => fn_out.ret = "E"
        /\ fn_in = Deg(359) => fn_out.ret = "N"
        /\ fn_in = Deg(100) => fn_out.ret = "E"
        /\ fn_in = [kind |-> "num", c |-> 10124] => fn_out.ret = "E"
        /\ fn_in = [kind |-> "num", c |-> 10125] => fn_out.ret = "ESE"
        /\ fn_in = Deg(112) => fn_out.ret = "ESE"

\* the conversion of 100 degrees has returned
C13_Witness == fn_out.called /\ fn_in = Deg(100)

\* the bearing a label is named after, in hundredths of a degree
NominalBearing ==
    ("N" :> 0) @@ ("NNE" :> 2250) @@ ("NE" :> 4500) @@ ("ENE" :> 6750)
    @@ ("E" :> 9000) @@ ("ESE" :> 11250) @@ ("SE" :> 13500) @@ ("SSE" :> 15750)
    @@ ("S" :> 18000) @@ ("SSW" :> 20250) @@ ("SW" :> 22500) @@ ("WSW" :> 24750)
    @@ ("W" :> 27000) @@ ("WNW" :> 29250) @@ ("NW" :> 31500) @@ ("NNW" :> 33750)

\* C14: for every degree value, negative ones and ones of 360 or more
\* included, the label is the entry of the list at index
\* floor((d mod 360 + 11.25) / 22.5) mod 16, an index in 0..15, and the value
\* reduced modulo 360 lies in the bucket [bearing - 11.25, bearing + 11.25)
\* around the bearing the label is named after
C14_Buckets ==
    (fn_out.called /\ fn_in.kind \in {"num", "tiny_negative"}) =>
        LET c == IF fn_in.kind = "num" THEN fn_in.c ELSE 0
            idx == (((c % 36000) + 1125) \div 2250) % 16
        IN /\ idx \in 0..15
           /\ fn_out.ret = DIRS_16[idx + 1]
           /\ fn_out.ret \in DOMAIN NominalBearing
           /\ (c - NominalBearing[fn_out.ret] + 1125) % 36000 \in 0..2249

\* a negative value just below a bucket limit has been converted
C14_Witness ==
    /\ fn_out.called
    /\ fn_in = [kind |-> "num", c |-> 0 - 1126]
    /\ fn_out.ret = "NNW"

----------------------------------------------------------------------------
\* Extraction from one document

\* the largest number of elements of a document
MaxElems == 4

\* buoy_to_influx.py: the two loop variables after the station loop; the
\* loop ends at the first wmo_id_extnd element, whatever its value
RECURSIVE StationLoopInflux(_, _)
StationLoopInflux(elems, synop_id) ==
    IF elems = <<>> THEN <<None, synop_id>>
    ELSE LET e == Head(elems) IN
         IF e.name = "wmo_id_extnd" THEN <<e.value, synop_id>>
         ELSE IF e.name = "wmo_synop_id"
         THEN StationLoopInflux(Tail(elems), e.value)
         ELSE StationLoopInflux(Tail(elems), synop_id)

\* buoy_to_influx.py: `if not buoy_id: buoy_id = synop_id`, then
\* `if not buoy_id: ... return`; None stands for the document being skipped
ResolveStationInflux(elems) ==
    LET r == StationLoopInflux(elems, None)
        buoy_id == IF r[1] \in {None, ""} THEN r[2] ELSE r[1]
    IN IF buoy_id \in {None, ""} THEN None ELSE buoy_id

\* the elements documents are made of: station identifiers with and without
\* a value, raw names of one canonical key, a value float() rejects, an
\* element without a value and a name the mapping does not know
ElemAlphabet ==
    {Elem("wmo_id_extnd", "4600146"), Elem("wmo_id_extnd", ""),
     Elem("wmo_synop_id", "46146"), Elem("wmo_synop_id", None),
     Elem("sig_wave_hgt_pst20mts", "2"),
     Elem("avg_sig_wave_hgt_pst20mts", "3"),
     Elem("avg_sig_wave_hgt_pst20mts", "MSNG"),
     Elem("avg_wnd_spd_pst10mts", " 30 "),
     Elem("avg_air_temp_pst10mts", None),
     Elem("stn_nam", "Halibut Bank")}

RECURSIVE SeqsUpTo(_, _)
SeqsUpTo(S, n) ==
    IF n = 0 THEN {<<>>}
    ELSE LET shorter == SeqsUpTo(S, n - 1)
         IN shorter \cup {Append(s, x) : s \in shorter, x \in S}

\* well-formed documents with a valid timestamp
ExtractDocs ==
    {Doc(TRUE, "2024-01-01T01:00:00Z", es) : es \in SeqsUpTo(ElemAlphabet, MaxElems)}

InitExtract ==
    /\ InitIngested
    /\ xml_dir = [p \in Paths |-> DocA1]
    /\ InitExportVars
    /\ fn_in \in ExtractDocs
    /\ fn_out = NotCalled

\* the document is parsed by both scripts and, when parse_and_collect_fields
\* returns fields, inserted into an empty table
CallExtract ==
    /\ ~fn_out.called
    /\ LET r == ParseDocument(fn_in)
       IN fn_out' = Returned(
             [station |-> ResolveStation(fn_in.elements),
              station_influx |-> ResolveStationInflux(fn_in.elements),
              parse |-> r,
              rows |-> IF r.kind = "ok"
                       THEN insert_sqlite(<<>>, r.buoy_id,
                                          r.fields["observation_time"],
                                          r.fields, "a.xml").rows
                       ELSE <<>>])
    /\ UNCHANGED fn_in
    /\ UNCHANGED ingest_vars
    /\ UNCHANGED export_vars

SpecExtract == InitExtract /\ [][CallExtract]_vars

\* the non-empty values of the elements called name
ValuesOf(elems, name) ==
    {elems[i].value : i \in {j \in DOMAIN elems :
                                /\ elems[j].name = name
                                /\ elems[j].value \notin {None, ""}}}

\* what the claim asks of a resolved identifier
StationAsClaimed(elems, id) ==
    IF ValuesOf(elems, "wmo_id_extnd") # {}
    THEN id \in ValuesOf(elems, "wmo_id_extnd")
    ELSE IF ValuesOf(elems, "wmo_synop_id") # {}
    THEN id \in ValuesOf(elems, "wmo_synop_id")
    ELSE id = None

\* C15: in both ingestion scripts the station identifier is a non-empty
\* value of a wmo_id_extnd element when there is one, otherwise a non-empty
\* value of a wmo_synop_id element when there is one, wherever the elements
\* stand in the document, and the document is rejected only when there is
\* neither
C15_StationResolution ==
    fn_out.called =>
        /\ StationAsClaimed(fn_in.elements, fn_out.ret.station)
        /\ StationAsClaimed(fn_in.elements, fn_out.ret.station_influx)

\* what holds: buoy_to_influx_sqlite.py resolves the station as claimed
SqliteStationAsClaimed ==
    fn_out.called => StationAsClaimed(fn_in.elements, fn_out.ret.station)

\* the positions of the elements whose name maps to canonical key k
ElemsOfKey(elems, k) ==
    {i \in DOMAIN elems :
        elems[i].name \in DOMAIN FIELD_MAP /\ FIELD_MAP[elems[i].name] = k}

\* those of them whose value float() accepts
NumericElemsOfKey(elems, k) ==
    {i \in ElemsOfKey(elems, k) :
        elems[i].value # None /\ elems[i].value \in DOMAIN FloatLiterals}

Last(S) == CHOOSE i \in S : \A j \in S : j <= i

\* C16 as stated: when several elements of a document map to one canonical
\* key, the value extracted for the key is the value of the last of them
C16_LastElementWins ==
    (fn_out.called /\ fn_out.ret.parse.kind = "ok") =>
        \A k \in EXPECTED_FIELDS :
            Cardinality(ElemsOfKey(fn_in.elements, k)) >= 2 =>
                LET v == fn_in.elements[Last(ElemsOfKey(fn_in.elements, k))].value
                IN /\ k \in DOMAIN fn_out.ret.parse.fields
                   /\ v # None
                   /\ v \in DOMAIN FloatLiterals
                   /\ fn_out.ret.parse.fields[k] = FloatLiterals[v]

\* C16: when several elements of a document map to one canonical key, the
\* value extracted for the key is the value of the last of them that has a
\* numeric value; the key is not extracted when none has
C16_LastNumericElementWins ==
    (fn_out.called /\ fn_out.ret.parse.kind = "ok") =>
        \A k \in EXPECTED_FIELDS :
            Cardinality(ElemsOfKey(fn_in.elements, k)) >= 2 =>
                IF NumericElemsOfKey(fn_in.elements, k) = {}
                THEN k \notin DOMAIN fn_out.ret.parse.fields
                ELSE /\ k \in DOMAIN fn_out.ret.parse.fields
                     /\ fn_out.ret.parse.fields[k] =
                           FloatLiterals[fn_in.elements[
                               Last(NumericElemsOfKey(fn_in.elements, k))].value]

\* two raw names of the significant wave height with the values 2 and 3,
\* followed by one with a value that is not a number: 3 is extracted
C16_Witness ==
    /\ fn_out.called
    /\ fn_in.elements = <<Elem("wmo_id_extnd", "4600146"),
                          Elem("sig_wave_hgt_pst20mts", "2"),
                          Elem("avg_sig_wave_hgt_pst20mts", "3"),
                          Elem("avg_sig_wave_hgt_pst20mts", "MSNG")>>
    /\ fn_out.ret.parse.kind = "ok"
    /\ fn_out.ret.parse.fields["wave_height_sig"] = 3

\* the canonical keys of the recognized elements with a numeric value
NumericKeys(elems) ==
    {FIELD_MAP[elems[i].name] :
        i \in {j \in DOMAIN elems :
                  /\ elems[j].name \in DOMAIN FIELD_MAP
                  /\ elems[j].value # None
                  /\ elems[j].value \in DOMAIN FloatLiterals}}

\* C17: a document with a valid timestamp, a station identifier and at least
\* one recognized element with a numeric value is extracted and its row
\* inserted, whatever other elements it has; the metrics extracted and the
\* metrics of the row are exactly the canonical keys of the recognized
\* elements with a numeric value
C17_LenientExtraction ==
    (/\ fn_out.called
     /\ ValuesOf(fn_in.elements, "wmo_id_extnd")
           \cup ValuesOf(fn_in.elements, "wmo_synop_id") # {}
     /\ NumericKeys(fn_in.elements) # {}) =>
        /\ fn_out.ret.parse.kind = "ok"
        /\ DOMAIN fn_out.ret.parse.fields \ {"observation_time"}
              = NumericKeys(fn_in.elements)
        /\ Len(fn_out.ret.rows) = 1
        /\ DOMAIN fn_out.ret.rows[1].fields = NumericKeys(fn_in.elements)
        /\ fn_out.ret.rows[1].buoy_id = fn_out.ret.station

\* a document with an unknown name, a value that is not a number and one
\* numeric value has been inserted with the one metric
C17_Witness ==
    /\ fn_out.called
    /\ fn_in.elements = <<Elem("stn_nam", "Halibut Bank"),
                          Elem("wmo_synop_id", "46146"),
                          Elem("avg_sig_wave_hgt_pst20mts", "MSNG"),
                          Elem("avg_wnd_spd_pst10mts", " 30 ")>>
    /\ Len(fn_out.ret.rows) = 1
    /\ fn_out.ret.rows[1].fields = ("wind_speed" :> 30)

----------------------------------------------------------------------------
\* The timeseries document of a given table

\* the times of the stored samples, in the order of their insertion: before
\* the window, at its start, on the hour and off the hour inside it, and,
\* from a source whose clock is ahead, on the hour after the export time
SampleTimes ==
    <<IsoEpoch["2024-01-01T01:00:00+00:00"],
      StartTime - 86400,
      IsoEpoch["2024-01-01T02:00:00+00:00"],
      IsoEpoch["2024-01-01T02:00:00+00:00"] + 600,
      StartTime + 1800>>

\* what a station stored at one of the times: no row, a row with a wind
\* speed, a row with a wave height (its other columns NULL)
SampleKinds == {"no_row", "wind", "wave"}

SampleFields(kind) ==
    IF kind = "wind" THEN ("wind_speed" :> 10) ELSE ("wave_height_sig" :> 2)

\* the rows of one buoy for a choice of samples
RECURSIVE RowsOfSamples(_, _, _)
RowsOfSamples(buoy_id, samples, n) ==
    IF n > Len(SampleTimes) THEN <<>>
    ELSE (IF samples[n] = "no_row" THEN <<>>
          ELSE <<[buoy_id |-> buoy_id, observation_time |-> SampleTimes[n],
                  fields |-> SampleFields(samples[n]),
                  source_file |-> "a.xml"]>>)
         \o RowsOfSamples(buoy_id, samples, n + 1)

\* a high-frequency buoy and a standard buoy
HighFrequencyBuoy == "4600304"
StandardBuoy == "4600146"

\* tables in which the two buoys hold the same samples
TimeseriesInputs ==
    {[rows |-> RowsOfSamples(HighFrequencyBuoy, s, 1)
                  \o RowsOfSamples(StandardBuoy, s, 1),
      now |-> StartTime] : s \in [DOMAIN SampleTimes -> SampleKinds]}

InitTimeseries ==
    /\ InitIngested
    /\ xml_dir = [p \in Paths |-> DocA1]
    /\ InitExportVars
    /\ fn_in \in TimeseriesInputs
    /\ fn_out = NotCalled

CallTimeseries ==
    /\ ~fn_out.called
    /\ fn_out' = Returned(TimeseriesJson(fn_in.rows, fn_in.now))
    /\ UNCHANGED fn_in
    /\ UNCHANGED ingest_vars
    /\ UNCHANGED export_vars

SpecTimeseries == InitTimeseries /\ [][CallTimeseries]_vars

\* the times of the points the document has for a buoy and a metric
EmittedTimes(doc, b, m) ==
    IF b \in DOMAIN doc.buoys /\ m \in DOMAIN doc.buoys[b]
    THEN {doc.buoys[b][m][j].epoch : j \in DOMAIN doc.buoys[b][m]}
    ELSE {}

EmittedCount(doc, b, m) ==
    IF b \in DOMAIN doc.buoys /\ m \in DOMAIN doc.buoys[b]
    THEN Len(doc.buoys[b][m])
    ELSE 0

\* the times of the stored samples of a buoy that have the metric and are
\* not older than the start of the window
StoredInWindow(rows, b, m, cutoff) ==
    {rows[i].observation_time :
        i \in {j \in DOMAIN rows : /\ rows[j].buoy_id = b
                                   /\ m \in DOMAIN rows[j].fields
                                   /\ rows[j].observation_time >= cutoff}}

----------------------------------------------------------------------------
\* Snapshot export: sqlite_to_json.py

REALTIME_FIELDS ==
    {"wind_speed", "wind_gust", "wind_direction", "air_temp", "sea_temp",
     "pressure"}

WAVE_FIELDS ==
    {"wave_height_sig", "wave_height_peak", "wave_period_sig", "wave_period_avg",
     "wave_period_peak", "wave_direction_avg", "wave_direction_peak"}

\* variant: a freshness window of 61 minutes
FRESHNESS_61min == 61 * 60

\* `one_hour_ago = obs_time - 3600`
FRESHNESS == 3600

\* variant: ORDER BY observation_time ASC LIMIT 1
LatestOf_asc(rows, sel) ==
    CHOOSE i \in sel : \A j \in sel : rows[i].observation_time <= rows[j].observation_time

\* ORDER BY observation_time DESC LIMIT 1 over the positions in sel
LatestOf(rows, sel) ==
    CHOOSE i \in sel : \A j \in sel : rows[j].observation_time <= rows[i].observation_time

\* the rows of the first query: every row of the buoy
RealtimeRows(rows, buoy_id) == {i \in DOMAIN rows : rows[i].buoy_id = buoy_id}

\* the rows of the second query
WaveRows(rows, buoy_id, obs_time) ==
    {i \in DOMAIN rows :
        /\ rows[i].buoy_id = buoy_id
        /\ rows[i].observation_time >= obs_time - FRESHNESS
        /\ rows[i].observation_time <= obs_time
        /\ "wave_height_sig" \in DOMAIN rows[i].fields}

\* buoy_json without the name: a function from the keys of the JSON object
\* to their values
BuoyJson(rows, buoy_id) ==
    LET realtime_row == rows[LatestOf(rows, RealtimeRows(rows, buoy_id))]
        obs_time == realtime_row.observation_time
        realtime == [f \in REALTIME_FIELDS \cap DOMAIN realtime_row.fields |->
                        IF f \in {"wind_speed", "wind_gust"}
                        THEN [tenths |-> kmh_to_knots(realtime_row.fields[f])]
                        ELSE [units |-> realtime_row.fields[f]]]
        wsel == WaveRows(rows, buoy_id, obs_time)
        wave_row == rows[LatestOf(rows, wsel)]
        wave == IF wsel = {} THEN EmptyFields
                ELSE [f \in WAVE_FIELDS \cap DOMAIN wave_row.fields |->
                         [units |-> wave_row.fields[f]]]
                     @@ (IF wave_row.observation_time # obs_time
                         THEN ("wave_observation_time" :>
                                  [iso |-> isoformat(wave_row.observation_time)])
                         ELSE EmptyFields)
        json == ("observation_time" :> [iso |-> isoformat(obs_time)])
                @@ realtime @@ wave
        cardinal(f) ==
            IF f \in DOMAIN json /\ degrees_to_cardinal(Deg(json[f].units)) # None
            THEN ((f \o "_cardinal") :>
                     [label |-> degrees_to_cardinal(Deg(json[f].units))])
            ELSE EmptyFields
    IN json @@ cardinal("wind_direction") @@ cardinal("wave_direction_peak")

\* latest_json: the buoys of BUOYS that have a row
SnapshotJson(rows) ==
    [b \in {x \in BUOYS : RealtimeRows(rows, x) # {}} |-> BuoyJson(rows, b)]

\* the times of the stored rows: 61, 60 and 59 minutes before 02:00, and 02:00
SnapTimes ==
    <<IsoEpoch["2024-01-01T02:00:00+00:00"] - 3660,
      IsoEpoch["2024-01-01T02:00:00+00:00"] - 3600,
      IsoEpoch["2024-01-01T02:00:00+00:00"] - 3540,
      IsoEpoch["2024-01-01T02:00:00+00:00"]>>

\* what the row of one time holds: a wind report, a wave report with a
\* significant wave height, a wave report without one
SnapKinds == {"no_row", "wind", "wave", "period"}

SnapFields(kind) ==
    CASE kind = "wind" -> ("wind_speed" :> 10) @@ ("wind_direction" :> 100)
      [] kind = "wave" -> ("wave_height_sig" :> 2) @@ ("wave_direction_peak" :> 359)
      [] OTHER -> ("wave_period_peak" :> 3)

RECURSIVE RowsOfSnap(_, _, _)
RowsOfSnap(buoy_id, kinds, n) ==
    IF n > Len(SnapTimes) THEN <<>>
    ELSE (IF kinds[n] = "no_row" THEN <<>>
          ELSE <<[buoy_id |-> buoy_id, observation_time |-> SnapTimes[n],
                  fields |-> SnapFields(kinds[n]),
                  source_file |-> "a.xml"]>>)
         \o RowsOfSnap(buoy_id, kinds, n + 1)

SnapshotInputs ==
    {RowsOfSnap(StandardBuoy, k, 1) : k \in [DOMAIN SnapTimes -> SnapKinds]}

InitSnapshot ==
    /\ InitIngested
    /\ xml_dir = [p \in Paths |-> DocA1]
    /\ InitExportVars
    /\ fn_in \in SnapshotInputs
    /\ fn_out = NotCalled

CallSnapshot ==
    /\ ~fn_out.called
    /\ fn_out' = Returned(SnapshotJson(fn_in))
    /\ UNCHANGED fn_in
    /\ UNCHANGED ingest_vars
    /\ UNCHANGED export_vars

SpecSnapshot == InitSnapshot /\ [][CallSnapshot]_vars

\* the times of the rows of a buoy, and of its wave samples: the rows with
\* a significant wave height
TimesOf(rows, b) == {rows[i].observation_time : i \in RealtimeRows(rows, b)}

WaveSampleTimes(rows, b) ==
    {rows[i].observation_time :
        i \in {j \in RealtimeRows(rows, b) :
                  "wave_height_sig" \in DOMAIN rows[j].fields}}

Max(S) == CHOOSE x \in S : \A y \in S : y <= x

C19_WitnessStale ==
    /\ fn_out.called
    /\ fn_in = RowsOfSnap(StandardBuoy, <<"wave", "no_row", "no_row", "wind">>, 1)
    /\ WAVE_FIELDS \cap DOMAIN fn_out.ret[StandardBuoy] = {}

----------------------------------------------------------------------------
\* The Influx sink

\* C20: a write_point call, failed or not, is followed by the insert of the
\* same document and can only switch the sink off; a sink that is off stays
\* off until the next run builds a new one; whatever the sink, the insert
\* puts the row of the document into the transaction (or finds its key
\* there already) and the commit stores it and marks the document processed
C20_SinkFailure ==
    [][/\ (pc = "influx" /\ pc' \notin {"influx", "killed"})
          => /\ pc' = "insert"
             /\ influx_online' => influx_online
             /\ UNCHANGED <<todo, parsed, processed, store>>
       /\ (~influx_online /\ influx_online') => runs' = runs + 1
       /\ (pc = "insert" /\ pc' \notin {"insert", "killed"})
          => /\ pc' = "commit"
             /\ RowsOfKey(txn'.rows, KeyOf(Head(todo))) # {}
             /\ UNCHANGED todo
       /\ (pc = "commit" /\ pc' \notin {"commit", "killed"})
          => /\ RowsOfKey(store', KeyOf(Head(todo))) # {}
             /\ Head(todo) \in processed']_vars

\* the write of the first of several documents has just failed: the sink is
\* off and the document is about to be inserted
C20_Witness ==
    /\ event.op = "write_point_failed"
    /\ pc = "insert"
    /\ ~influx_online
    /\ Len(todo) >= 2
    /\ event.path = Head(todo)

----------------------------------------------------------------------------
\* The exporters on a store that cannot be read

\* what sqlite3 meets at SQLITE_PATH: a database with the table, no file, a
\* file that cannot be opened, a database another connection holds locked
\* past the timeout, a file that is not a database, a database without the
\* table buoy_observation
StoreConds == {"ok", "missing", "unreadable", "locked", "corrupt", "no_table"}

\* the exception the first statement on the connection raises, None when it
\* raises none: sqlite3.connect creates a missing file as an empty database
SqliteError(cond) ==
    CASE cond \in {"unreadable", "locked"} -> "OperationalError"
      [] cond = "corrupt" -> "DatabaseError"
      [] OTHER -> None

\* the artifact an earlier run has published
PriorArtifact == [exists |-> TRUE, content |-> [prior |-> TRUE]]

\* query_and_export_timeseries on such a store: how the call ends and the
\* file at OUT_PATH after it
TimeseriesRun(cond, rows, t, out) ==
    IF cond = "missing"
    THEN [outcome |-> "returned", out |-> out]
    ELSE IF SqliteError(cond) = "OperationalError"
    THEN [outcome |-> "returned", out |-> out]
    ELSE IF SqliteError(cond) # None
    THEN [outcome |-> "raised", out |-> out]
    ELSE IF cond = "no_table"
    THEN [outcome |-> "returned", out |-> out]
    ELSE [outcome |-> "written",
          out |-> [exists |-> TRUE, content |-> [doc |-> TimeseriesJson(rows, t)]]]

\* query_and_export of sqlite_to_json.py on such a store: no test of the
\* path, no handler around the connection
SnapshotRun(cond, rows, out) ==
    IF SqliteError(cond) # None
    THEN [outcome |-> "raised", out |-> out]
    ELSE IF cond \in {"missing", "no_table"}
    THEN [outcome |-> "returned", out |-> out]
    ELSE [outcome |-> "written",
          out |-> [exists |-> TRUE, content |-> [doc |-> SnapshotJson(rows)]]]

UnavailableInputs ==
    [exporter : {"timeseries", "snapshot"}, cond : StoreConds,
     rows : SnapshotInputs, out : {NoFile, PriorArtifact}]

InitUnavailable ==
    /\ InitIngested
    /\ xml_dir = [p \in Paths |-> DocA1]
    /\ InitExportVars
    /\ fn_in \in UnavailableInputs
    /\ fn_out = NotCalled

CallExporter ==
    /\ ~fn_out.called
    /\ fn_out' = Returned(
          IF fn_in.exporter = "timeseries"
          THEN TimeseriesRun(fn_in.cond, fn_in.rows, StartTime, fn_in.out)
          ELSE SnapshotRun(fn_in.cond, fn_in.rows, fn_in.out))
    /\ UNCHANGED fn_in
    /\ UNCHANGED ingest_vars
    /\ UNCHANGED export_vars

SpecUnavailable == InitUnavailable /\ [][CallExporter]_vars

\* what holds: on a store that cannot be read no exporter touches its artifact
NoOutputOnUnavailable ==
    (fn_out.called /\ fn_in.cond # "ok") => fn_out.ret.out = fn_in.out

\* C21: on a store that is missing, unreadable, locked or without the table,
\* each exporter ends by a return of its export function, with no exception
\* left uncaught, and the file at its output path is what it was
C21_CleanAbort ==
    (fn_out.called /\ fn_in.cond \in {"missing", "unreadable", "locked", "no_table"})
        => /\ fn_out.ret.outcome = "returned"
           /\ fn_out.ret.out = fn_in.out

----------------------------------------------------------------------------
\* Schema reconciliation: ensure_schema

\* the columns of CREATE_TABLE_SQL that are not metrics
BaseColumns == {"id", "buoy_id", "observation_time", "source_file", "recorded_at"}

\* the database file before the table is created
NoTable == [exists |-> FALSE, cols |-> {}, rows |-> <<>>, indexes |-> {}]

\* variant: the table is dropped and created anew when a column is missing
ensure_schema_recreate(db) ==
    IF db.exists /\ EXPECTED_FIELDS \subseteq db.cols
    THEN [db EXCEPT !.indexes = @ \cup {"idx_buoy_time", "uniq_buoy_ts"}]
    ELSE [exists |-> TRUE, cols |-> BaseColumns \cup EXPECTED_FIELDS,
          rows |-> <<>>, indexes |-> {"idx_buoy_time", "uniq_buoy_ts"}]

\* CREATE TABLE IF NOT EXISTS, CREATE [UNIQUE] INDEX IF NOT EXISTS, then
\* ALTER TABLE ADD COLUMN for every name of EXPECTED_FIELDS that PRAGMA
\* table_info does not list
ensure_schema(db) ==
    LET created == IF db.exists THEN db
                   ELSE [exists |-> TRUE, cols |-> BaseColumns \cup EXPECTED_FIELDS,
                         rows |-> <<>>, indexes |-> {}]
        indexed == [created EXCEPT !.indexes = @ \cup {"idx_buoy_time", "uniq_buoy_ts"}]
    IN [indexed EXCEPT !.cols = @ \cup {c \in EXPECTED_FIELDS : c \notin indexed.cols}]

\* metric columns a table of an earlier version may have or lack one by one
LegacyChoice == {"wind_speed", "wave_height_sig", "wave_period_sig", "pressure"}

\* tables of earlier versions: some metric columns missing, a column the
\* registry does not know, with or without the indexes, empty or with a row
\* that has a value in every metric column the table has
LegacyTables ==
    {[exists |-> TRUE,
      cols |-> BaseColumns \cup s \cup r \cup x,
      rows |-> IF n = 0 THEN <<>>
               ELSE <<[buoy_id |-> "4600146",
                       observation_time |-> IsoEpoch["2024-01-01T01:00:00+00:00"],
                       fields |-> [c \in s \cup x |-> 10],
                       source_file |-> "a.xml"]>>,
      indexes |-> i] :
        s \in SUBSET LegacyChoice,
        r \in {{}, EXPECTED_FIELDS \ LegacyChoice},
        x \in {{}, {"battery"}},
        n \in {0, 1},
        i \in {{}, {"idx_buoy_time", "uniq_buoy_ts"}}}

InitSchema ==
    /\ InitIngested
    /\ xml_dir = [p \in Paths |-> DocA1]
    /\ InitExportVars
    /\ fn_in \in LegacyTables \cup {NoTable}
    /\ fn_out = NotCalled

\* two opens of the store, one after the other
CallEnsureSchema ==
    /\ ~fn_out.called
    /\ fn_out' = Returned([after |-> ensure_schema(fn_in),
                           again |-> ensure_schema(ensure_schema(fn_in))])
    /\ UNCHANGED fn_in
    /\ UNCHANGED ingest_vars
    /\ UNCHANGED export_vars

SpecSchema == InitSchema /\ [][CallEnsureSchema]_vars

\* C22: after ensure_schema the table has every column of EXPECTED_FIELDS,
\* every column and index it had before and the same rows with the same
\* values, none of which has a value in a column that was added; a second
\* ensure_schema leaves the table as the first left it
C22_AdditiveIdempotent ==
    fn_out.called =>
        LET after == fn_out.ret.after IN
        /\ after.exists
        /\ EXPECTED_FIELDS \subseteq after.cols
        /\ fn_in.cols \subseteq after.cols
        /\ fn_in.indexes \subseteq after.indexes
        /\ after.rows = fn_in.rows
        /\ \A i \in DOMAIN after.rows :
              DOMAIN after.rows[i].fields \cap (after.cols \ fn_in.cols) = {}
        /\ fn_out.ret.again = after

\* a table with a row, without the column wave_height_sig and with a column
\* the registry does not know has been reconciled
C22_Witness ==
    /\ fn_out.called
    /\ Len(fn_in.rows) = 1
    /\ "wave_height_sig" \notin fn_in.cols
    /\ "battery" \in fn_in.cols
    /\ "wave_height_sig" \in fn_out.ret.after.cols
    /\ "battery" \in DOMAIN fn_out.ret.after.rows[1].fields

----------------------------------------------------------------------------
\* A reader of the store beside an ingestion run

\* directories with a document of a key of its own, two documents of one
\* key, and a document that is not well-formed
ReaderDirs ==
    {[p \in Paths |-> IF p = Head(SortedPaths) THEN DocA1 ELSE DocB2],
     [p \in Paths |-> IF p = Head(SortedPaths) THEN DocA1
                      ELSE IF p = SortedPaths[2] THEN DocA1b ELSE DocB2],
     [p \in Paths |-> IF p = Head(SortedPaths) THEN DocBadXml ELSE DocB2]}

InitReader ==
    /\ Init
    /\ xml_dir \in ReaderDirs

\* a SELECT of another connection: it returns the committed rows, never the
\* rows of the transaction that is open
ReadStore ==
    /\ fn_out # Returned(store)
    /\ fn_out' = Returned(store)
    /\ UNCHANGED fn_in
    /\ UNCHANGED ingest_vars
    /\ UNCHANGED export_vars

NextReader ==
    \/ Next
    \/ ReadStore

SpecReader == InitReader /\ [][NextReader]_vars

\* C23: every row a reader gets while runs are in progress is the whole row
\* of the document its source_file names, with every metric value of that
\* document; the committed rows change only in the commit of one document,
\* by at most the one row of that document
C23_WholeRows ==
    /\ [](fn_out.called =>
            \A i \in DOMAIN fn_out.ret :
                \E p \in Valid :
                    /\ fn_out.ret[i].source_file = PathName(p)
                    /\ fn_out.ret[i] = RowOf(p))
    /\ [][store' # store =>
             /\ pc = "commit"
             /\ store' = Append(store, RowOf(Head(todo)))]_vars

\* a reader has got the row of the first document while the row of the
\* second is inserted and not committed
C23_Witness ==
    /\ fn_out.called
    /\ Len(fn_out.ret) = 1
    /\ pc = "commit"
    /\ txn.open
    /\ Len(txn.rows) = 2
    /\ Len(store) = 1

----------------------------------------------------------------------------
\* The ledger over successive runs

\* a run that completes writes every reference it read at its start: when it
\* opens the ledger to write, the file still holds what it read, all of it
\* in `processed`, and the write leaves exactly `processed` in the file
CompletedRunKeeps ==
    /\ [][pc = "loop" /\ pc' = "flush" => Ledger \subseteq processed]_vars
    /\ [][pc = "flush" /\ pc' = "done" =>
             /\ Ledger' = processed
             /\ ever_persisted \subseteq Ledger']_vars

\* C24: the ledger is append-only: once no run is in progress, every
\* reference that a completed ledger write has persisted is in the ledger
\* file; no run, completed or not, has removed one
C24_AppendOnly ==
    pc \in Stopped => ever_persisted \subseteq Ledger

----------------------------------------------------------------------------
\* The exporters and the rows of the store

\* a table of rows in km/h as ingestion left it, no exporter run so far
InitFrame ==
    /\ xml_dir = [p \in Paths |-> DocA1]
    /\ processed_file = [exists |-> TRUE, lines |-> SortedPaths]
    /\ store \in SnapshotInputs
    /\ pc = "done"
    /\ processed = Paths
    /\ todo = <<>>
    /\ parsed = None
    /\ txn = NoTxn
    /\ influx_online = FALSE
    /\ runs = 1
    /\ event = [op |-> "write", path |-> None]
    /\ good_ledger = SortedPaths
    /\ ever_persisted = Paths
    /\ InitExportVars
    /\ InitPureVars

\* the rows with the wind metrics rewritten in knots
InKnots(rows) ==
    [i \in DOMAIN rows |->
        [rows[i] EXCEPT !.fields =
            [f \in DOMAIN rows[i].fields |->
                IF f \in {"wind_speed", "wind_gust"}
                THEN kmh_to_knots(rows[i].fields[f])
                ELSE rows[i].fields[f]]]]

\* sqlite_to_json.py: PRAGMA table_info and two SELECTs per buoy, then the
\* document is written; no statement changes the table
RunSnapshot ==
    /\ fn_out # Returned([exporter |-> "snapshot", doc |-> SnapshotJson(store)])
    /\ fn_out' = Returned([exporter |-> "snapshot", doc |-> SnapshotJson(store)])
    /\ UNCHANGED fn_in
    /\ UNCHANGED ingest_vars
    /\ UNCHANGED export_vars

\* variant: the converted values are written back with an UPDATE
RunTimeseries_inplace ==
    /\ fn_out # Returned([exporter |-> "timeseries",
                          doc |-> TimeseriesJson(store, now)])
    /\ fn_out' = Returned([exporter |-> "timeseries",
                           doc |-> TimeseriesJson(store, now)])
    /\ store' = InKnots(store)
    /\ UNCHANGED fn_in
    /\ UNCHANGED <<xml_dir, processed_file, pc, processed, todo, parsed, txn,
                   influx_online, runs, event, good_ledger, ever_persisted>>
    /\ UNCHANGED export_vars

\* export_24hr_timeseries.py: PRAGMA table_info and one SELECT per buoy and
\* metric, then the document is written; no statement changes the table
RunTimeseries ==
    /\ fn_out # Returned([exporter |-> "timeseries",
                          doc |-> TimeseriesJson(store, now)])
    /\ fn_out' = Returned([exporter |-> "timeseries",
                           doc |-> TimeseriesJson(store, now)])
    /\ UNCHANGED fn_in
    /\ UNCHANGED ingest_vars
    /\ UNCHANGED export_vars

NextFrame ==
    \/ RunSnapshot
    \/ RunTimeseries

SpecFrame == InitFrame /\ [][NextFrame]_vars

\* the wind values of a document of either exporter
WindValues(ret) ==
    IF ret.exporter = "snapshot"
    THEN {ret.doc[b][f] : b \in DOMAIN ret.doc,
                          f \in {"wind_speed", "wind_gust"}
                                   \cap UNION {DOMAIN ret.doc[x] : x \in DOMAIN ret.doc}}
    ELSE UNION {UNION {Range(ret.doc.buoys[b][m]) :
                          m \in {"wind_speed", "wind_gust"} \cap DOMAIN ret.doc.buoys[b]}
                   : b \in DOMAIN ret.doc.buoys}

\* the stored wind values, in km/h
StoredWind(rows) ==
    UNION {{rows[i].fields[f] : f \in {"wind_speed", "wind_gust"}
                                       \cap DOMAIN rows[i].fields}
              : i \in DOMAIN rows}

\* C25: no run of either exporter changes a row of the store, and every wind
\* value of the exported document is the conversion to knots of a stored
\* value, which stays in km/h
C25_ConversionOnlyInOutput ==
    /\ [][store' = store]_vars
    /\ [](fn_out.called =>
            \A v \in WindValues(fn_out.ret) :
                \E kmh \in StoredWind(store) :
                    (IF fn_out.ret.exporter = "snapshot" THEN v ELSE v.value)
                        = [tenths |-> kmh_to_knots(kmh)])

\* the timeseries exporter has emitted 5.4 knots for a stored 10 km/h
C25_Witness ==
    /\ fn_out.called
    /\ fn_out.ret.exporter = "timeseries"
    /\ \E v \in WindValues(fn_out.ret) : v.value = [tenths |-> 54]
    /\ StoredWind(store) = {10}

----------------------------------------------------------------------------
\* The time range of the timeseries document

\* the times of all the points of the document
AllEmittedTimes(doc) ==
    UNION {UNION {EmittedTimes(doc, b, m) : m \in DOMAIN doc.buoys[b]}
              : b \in DOMAIN doc.buoys}

Min(S) == CHOOSE x \in S : \A y \in S : x <= y

\* data_start and data_end are the earliest and the latest emitted time, and
\* null when no point is emitted
DataRangeIsEmitted ==
    fn_out.called =>
        LET doc == fn_out.ret
            times == AllEmittedTimes(doc)
        IN IF times = {}
           THEN doc.meta.data_start = None /\ doc.meta.data_end = None
           ELSE /\ doc.meta.data_start = isoformat(Min(times))
                /\ doc.meta.data_end = isoformat(Max(times))

\* every emitted point is stamped at or after query_start
EmittedAfterStart ==
    fn_out.called =>
        \A t \in AllEmittedTimes(fn_out.ret) : t >= fn_out.ret.meta.query_start

\* C26: every emitted point is stamped inside [query_start, query_end], the
\* 24 hours that end at generation time, and data_start and data_end are the
\* earliest and latest emitted times (null when nothing is emitted)
C26_InWindow ==
    /\ fn_out.called =>
           /\ fn_out.ret.meta.query_end = fn_out.ret.meta.generated_utc
           /\ fn_out.ret.meta.query_start = fn_out.ret.meta.generated_utc - 86400
           /\ \A t \in AllEmittedTimes(fn_out.ret) :
                  /\ t >= fn_out.ret.meta.query_start
                  /\ t <= fn_out.ret.meta.query_end
    /\ DataRangeIsEmitted

----------------------------------------------------------------------------
\* The stations of the timeseries document

\* the rows of the table that qualify for a buoy and a metric: of that buoy,
\* not older than the cutoff, with a value for the metric, and on the hour
\* for the buoys that report every 10 minutes
Qualifying(rows, doc, b, m) == SelectRows(rows, b, doc.meta.query_start, m)

----------------------------------------------------------------------------
\* The wave fields of the snapshot and rows without a significant wave height

\* the rows of a buoy inside the hour before obs_time that carry any wave
\* metric
AnyWaveRows(rows, buoy_id, obs_time) ==
    {i \in DOMAIN rows :
        /\ rows[i].buoy_id = buoy_id
        /\ rows[i].observation_time >= obs_time - 3600
        /\ rows[i].observation_time <= obs_time
        /\ WAVE_FIELDS \cap DOMAIN rows[i].fields # {}}

\* C28: the wave fields of a station's snapshot are those of the most recent
\* row that carries any wave metric within the hour before the station's
\* latest observation, also when that row has no significant wave height
C28_AnyWaveMetric ==
    (fn_out.called /\ RealtimeRows(fn_in, StandardBuoy) # {}) =>
        LET json == fn_out.ret[StandardBuoy]
            sel == AnyWaveRows(fn_in, StandardBuoy, Max(TimesOf(fn_in, StandardBuoy)))
        IN sel # {} =>
              LET row == fn_in[LatestOf(fn_in, sel)]
              IN \A f \in WAVE_FIELDS \cap DOMAIN row.fields :
                     /\ f \in DOMAIN json
                     /\ json[f] = [units |-> row.fields[f]]

----------------------------------------------------------------------------
\* Whose lock release_lock removes

\* invocation 1 has acquired the lock and is in the export; the other
\* invocations start later
InitHeld ==
    /\ InitIngested
    /\ now = StartTime
    /\ lockfile = [exists |-> TRUE, mtime |-> StartTime]
    /\ epc = [i \in Procs |-> IF i = 1 THEN "export" ELSE "init"]
    /\ esnap = [i \in Procs |-> NoDoc]
    /\ tmp_file = NoFile
    /\ out_file = NoFile
    /\ InitPureVars

SpecHeld == InitHeld /\ [][NextLock]_vars

\* C29: the release of an invocation removes only the lock it created. From
\* InitHeld another invocation holds the lock only after the lock of
\* invocation 1 was unlinked as stale, so a lock file that exists while
\* another invocation holds was not created by invocation 1: the release of
\* invocation 1 does not remove the lock file then
C29_ReleaseOnlyOwn ==
    [][(/\ epc[1] \in {"rel_unlink", "rel_unlink_x"}
        /\ epc'[1] # epc[1]
        /\ \E j \in Procs \ {1} : Holding(j))
       => lockfile' = lockfile]_vars

----------------------------------------------------------------------------
\* The finally clause of the timeseries exporter

\* variant: the exception leaves the script with no finally clause
ExportRaises_nofinally(i) ==
    /\ epc[i] = "export"
    /\ epc' = [epc EXCEPT ![i] = "crashed"]
    /\ UNCHANGED <<now, lockfile, esnap, tmp_file, out_file>>
    /\ UNCHANGED ingest_vars
    /\ UNCHANGED pure_vars

\* query_and_export_timeseries raises an exception it does not catch (any
\* but sqlite3.OperationalError, e.g. sqlite3.DatabaseError on a file that is
\* not a database): control goes to `finally: release_lock()`
ExportRaises(i) ==
    /\ epc[i] = "export"
    /\ epc' = [epc EXCEPT ![i] = "release_x"]
    /\ UNCHANGED <<now, lockfile, esnap, tmp_file, out_file>>
    /\ UNCHANGED ingest_vars
    /\ UNCHANGED pure_vars

\* no lock file, no invocation started, one directory ingested
InitExit ==
    /\ InitLock
    /\ xml_dir = [p \in Paths |-> DocA1]

\* one invocation at a time, the export of any of them may raise; time
\* passes between the invocations, so that the lock a killed one has left
\* becomes stale
NextExit ==
    \/ \E i \in Procs : OthersIdle(i) /\ Invocation(i)
    \/ \E i \in Procs : OthersIdle(i) /\ ExportRaises(i)
    \/ \E i \in Procs : OthersIdle(i) /\ KillExporter(i)
    \/ (\A i \in Procs : ~Holding(i)) /\ Tick

\* an invocation that is started runs on until it ends or is killed
SpecExit ==
    /\ InitExit
    /\ [][NextExit]_vars
    /\ \A i \in Procs :
          WF_vars(OthersIdle(i) /\ (Invocation(i) \/ ExportRaises(i)))

\* C30: an invocation that holds the lock comes to its end unless it is
\* killed, and when it ends, having completed, returned early or raised, the
\* lock file is gone; only a kill ends an invocation with its lock in place
C30_LockReleased ==
    /\ \A i \in Procs :
          Holding(i) ~> epc[i] \in {"done", "crashed", "killed"}
    /\ [][\A i \in Procs :
             (Holding(i) /\ epc'[i] \notin {"killed"} /\ ~Holding(i)')
             => /\ epc'[i] \in {"done", "crashed"}
                /\ ~lockfile'.exists]_vars

\* an invocation whose export raised has ended and the lock file is gone
C30_Witness ==
    \E i \in Procs :
        /\ epc[i] = "crashed"
        /\ ~lockfile.exists
        /\ \A j \in Procs \ {i} : epc[j] = "init"

----------------------------------------------------------------------------
\* Concurrent invocations of the snapshot exporter: sqlite_to_json.py takes
\* no lock. tmp_file and out_file are the files at OUT_PATH + ".tmp" and at
\* OUT_PATH. An invocation inside tmp.write_text holds an open file: at the
\* temporary path ("write_tmp"), at the public path after another
\* invocation's replace has renamed it ("write_out"), or at no path after a
\* further replace has put another file there ("write_gone"). The table is
\* not changed meanwhile, so the invocations build the same document.

InitSnapWrite ==
    /\ InitIngested
    /\ now = StartTime
    /\ lockfile = [exists |-> FALSE, mtime |-> 0]
    /\ epc = [i \in Procs |-> "init"]
    /\ esnap = [i \in Procs |-> NoDoc]
    /\ tmp_file = NoFile
    /\ out_file \in {NoFile, PriorArtifact}
    /\ InitPureVars

\* query_and_export up to the call of safe_json_write: latest_json is built;
\* the scheduler starts the script again after an invocation has ended
SnapQuery(i) ==
    /\ epc[i] \in {"init", "done", "crashed"}
    /\ esnap' = [esnap EXCEPT ![i] = [doc |-> SnapshotJson(store)]]
    /\ epc' = [epc EXCEPT ![i] = "write_open"]
    /\ UNCHANGED <<now, lockfile, tmp_file, out_file>>
    /\ UNCHANGED ingest_vars
    /\ UNCHANGED pure_vars

\* tmp.write_text, first half: open(tmp, "w") creates the file at the
\* temporary path or truncates the one that is there
SnapWriteOpen(i) ==
    /\ epc[i] = "write_open"
    /\ tmp_file' = [exists |-> TRUE, content |-> Partial]
    /\ epc' = [epc EXCEPT ![i] = "write_tmp"]
    /\ UNCHANGED <<now, lockfile, esnap, out_file>>
    /\ UNCHANGED ingest_vars
    /\ UNCHANGED pure_vars

\* tmp.write_text, second half: the text goes into the open file, wherever
\* that file is by now, and the file is closed
SnapWriteText(i) ==
    /\ epc[i] \in {"write_tmp", "write_out", "write_gone"}
    /\ tmp_file' = IF epc[i] = "write_tmp"
                   THEN [exists |-> TRUE, content |-> esnap[i]]
                   ELSE tmp_file
    /\ out_file' = IF epc[i] = "write_out"
                   THEN [exists |-> TRUE, content |-> esnap[i]]
                   ELSE out_file
    /\ epc' = [epc EXCEPT ![i] = "replace"]
    /\ UNCHANGED <<now, lockfile, esnap>>
    /\ UNCHANGED ingest_vars
    /\ UNCHANGED pure_vars

\* tmp.replace(path): the file at the temporary path gets the public path,
\* with it the open files of the invocations that are writing it; when the
\* temporary path is empty, FileNotFoundError ends the invocation
SnapReplace(i) ==
    /\ epc[i] = "replace"
    /\ IF tmp_file.exists
       THEN /\ out_file' = tmp_file
            /\ tmp_file' = NoFile
            /\ epc' = [j \in Procs |->
                          IF j = i THEN "done"
                          ELSE IF epc[j] = "write_tmp" THEN "write_out"
                          ELSE IF epc[j] = "write_out" THEN "write_gone"
                          ELSE epc[j]]
       ELSE /\ epc' = [epc EXCEPT ![i] = "crashed"]
            /\ UNCHANGED <<tmp_file, out_file>>
    /\ UNCHANGED <<now, lockfile, esnap>>
    /\ UNCHANGED ingest_vars
    /\ UNCHANGED pure_vars

NextSnapWrite ==
    \/ \E i \in Procs : SnapQuery(i)
    \/ \E i \in Procs : SnapWriteOpen(i)
    \/ \E i \in Procs : SnapWriteText(i)
    \/ \E i \in Procs : SnapReplace(i)

SpecSnapWrite == InitSnapWrite /\ [][NextSnapWrite]_vars

\* C31: under every interleaving of the invocations of the snapshot
\* exporter, the file at the public path holds a whole document, the old one
\* or a new one, and no invocation has it open for writing
C31_SnapshotAtomic ==
    /\ out_file.exists =>
          \/ out_file = PriorArtifact
          \/ out_file.content = [doc |-> SnapshotJson(store)]
    /\ \A i \in Procs : epc[i] # "write_out"

----------------------------------------------------------------------------
\* The two ingestion scripts and their common ledger: buoy_to_influx.py
\* reads and writes the same ~/.cache/buoy_processed.txt over the same
\* directory and writes to InfluxDB only

\* how parse_and_write_xml ends for a document: an exception leaves it
\* ("raise"), it returns before the point is built ("skipped"), or it
\* returns after client.write_points, failed or not ("written")
parse_and_write_xml(doc) ==
    IF ~doc.wellformed THEN "raise"
    ELSE IF doc.timePosition = None THEN "skipped"
    ELSE IF doc.timePosition = "" THEN "raise"
    ELSE IF ReplaceZ(doc.timePosition) \notin DOMAIN IsoEpoch THEN "raise"
    ELSE IF ResolveStationInflux(doc.elements) = None THEN "skipped"
    ELSE IF DOMAIN CollectFields(doc.elements, EmptyFields) = {} THEN "skipped"
    ELSE "written"

\* a whole run of buoy_to_influx.py while the other script is not running:
\* the ledger is read, every document not in it for which
\* parse_and_write_xml returns is added, the ledger is written; the
\* observation store is not opened
InfluxScriptRun ==
    /\ pc \in Stopped
    /\ runs < MaxRuns
    /\ runs' = runs + 1
    /\ LET marked == ReadLedger(processed_file) \cup
                         {p \in Paths : parse_and_write_xml(xml_dir[p]) # "raise"}
       IN /\ processed_file' = [exists |-> TRUE, lines |-> sorted(marked)]
          /\ good_ledger' = sorted(marked)
          /\ ever_persisted' = ever_persisted \cup marked
    /\ event' = [op |-> "influx_script", path |-> None]
    /\ UNCHANGED <<xml_dir, store, pc, processed, todo, parsed, txn,
                   influx_online>>
    /\ UNCHANGED export_vars
    /\ UNCHANGED pure_vars

\* completed runs of the two scripts in any order
NextTwoScripts ==
    \/ StartRun
    \/ SkipProcessed
    \/ ParseStep
    \/ InfluxWrite
    \/ InsertStep
    \/ CommitStep
    \/ FlushOpen
    \/ FlushWrite
    \/ InfluxScriptRun

SpecTwoScripts == InitReader /\ [][NextTwoScripts]_vars

\* C32: after completed runs of the two scripts, every reference in the
\* ledger file whose document extracts to a valid observation has a row of
\* that observation's (buoy_id, observation_time) in the store
C32_LedgerImpliesRow ==
    pc \in Stopped =>
        \A p \in Ledger \cap Valid : RowsOfKey(store, KeyOf(p)) # {}

----------------------------------------------------------------------------
\* The realtime fields of the snapshot

\* C33: the snapshot has exactly the stations of BUOYS that have a row; a
\* station's observation_time and realtime fields are those of its one row
\* with the greatest observation_time (wind speeds converted to knots), and
\* a realtime field that row does not carry is not in the snapshot, whatever
\* older rows carry
C33_LatestRow ==
    fn_out.called =>
        LET doc == fn_out.ret IN
        /\ DOMAIN doc = {b \in BUOYS : RealtimeRows(fn_in, b) # {}}
        /\ \A b \in DOMAIN doc :
              \E i \in RealtimeRows(fn_in, b) :
                 /\ \A j \in RealtimeRows(fn_in, b) \ {i} :
                       fn_in[j].observation_time < fn_in[i].observation_time
                 /\ doc[b]["observation_time"]
                       = [iso |-> isoformat(fn_in[i].observation_time)]
                 /\ REALTIME_FIELDS \cap DOMAIN doc[b]
                       = REALTIME_FIELDS \cap DOMAIN fn_in[i].fields
                 /\ \A f \in REALTIME_FIELDS \cap DOMAIN fn_in[i].fields :
                       doc[b][f] = IF f \in {"wind_speed", "wind_gust"}
                                   THEN [tenths |-> kmh_to_knots(fn_in[i].fields[f])]
                                   ELSE [units |-> fn_in[i].fields[f]]

\* the latest row is a wave-only report one minute short of an hour after a
\* wind report: the snapshot carries the time of the wave report and no
\* realtime field, and the stations without rows are not in it
C33_Witness ==
    /\ fn_out.called
    /\ fn_in = RowsOfSnap(StandardBuoy, <<"no_row", "no_row", "wind", "wave">>, 1)
    /\ DOMAIN fn_out.ret = {StandardBuoy}
    /\ fn_out.ret[StandardBuoy]["observation_time"]
          = [iso |-> "2024-01-01T02:00:00+00:00"]
    /\ REALTIME_FIELDS \cap DOMAIN fn_out.ret[StandardBuoy] = {}
    /\ "wave_height_sig" \in DOMAIN fn_out.ret[StandardBuoy]

====
